---- MODULE Spec2Model ----
(***************************************************************************)
(* A model of odl/solvers/functional/default_functionals.py: the convex    *)
(* functionals of ODL, their evaluation, gradient, proximal and convex     *)
(* conjugate.                                                              *)
(*                                                                         *)
(* Floating point numbers are modelled exactly: a number is +inf, -inf,    *)
(* nan or the finite value (n + l2*ln 2 + l3*ln 3) / d with integer n, l2, *)
(* l3 and d > 0.  1, ln 2 and ln 3 are linearly independent over the       *)
(* rationals, so two finite numbers are equal iff their normalised records *)
(* are equal.  Rounding is not modelled; overflow of exp is.  The sign of  *)
(* a zero is not modelled.                                                 *)
(***************************************************************************)
EXTENDS Integers, Sequences, FiniteSets, TLC

VARIABLES func, orig, depth, op, arg, out, ret

vars == <<func, orig, depth, op, arg, out, ret>>

(***************************************************************************)
(* Bounds of the model.                                                    *)
(***************************************************************************)
\* number of components of an element of the space rn(Dim)
Dim == 2
\* number of successive convex_conj accesses followed from one construction
MaxConj == 2

(***************************************************************************)
(* Floating point arithmetic (numpy / Python float).                       *)
(***************************************************************************)
Abs(i) == IF i < 0 THEN -i ELSE i

RECURSIVE GCD(_, _)
GCD(a, b) == IF b = 0 THEN Abs(a) ELSE GCD(Abs(b), Abs(a) % Abs(b))

PInf == [k |-> "pinf", n |-> 0, d |-> 1, l2 |-> 0, l3 |-> 0]
NInf == [k |-> "ninf", n |-> 0, d |-> 1, l2 |-> 0, l3 |-> 0]
NaN == [k |-> "nan", n |-> 0, d |-> 1, l2 |-> 0, l3 |-> 0]

\* the finite number (n + l2 ln2 + l3 ln3)/d, d # 0, in normal form
Mk(n, l2, l3, d) ==
    LET g == GCD(GCD(GCD(n, l2), l3), d)
        s == IF d < 0 THEN -1 ELSE 1
    IN  [k |-> "fin", n |-> s * (n \div g), d |-> s * (d \div g),
         l2 |-> s * (l2 \div g), l3 |-> s * (l3 \div g)]

Rat(n, d) == Mk(n, 0, 0, d)
Fin(i) == Mk(i, 0, 0, 1)
Zero == Fin(0)
One == Fin(1)

IsFin(a) == a.k = "fin"
IsNaN(a) == a.k = "nan"
\* a finite number without logarithmic part
IsRat(a) == a.k = "fin" /\ a.l2 = 0 /\ a.l3 = 0
IsZero(a) == IsRat(a) /\ a.n = 0

\* np.isfinite
IsFinite(a) == IsFin(a)

\* the sign of a number that is not nan and has no logarithmic part
Sgn(a) ==
    CASE a.k = "pinf" -> 1
      [] a.k = "ninf" -> -1
      [] IsRat(a) -> IF a.n > 0 THEN 1 ELSE IF a.n < 0 THEN -1 ELSE 0

FNeg(a) ==
    CASE a.k = "pinf" -> NInf
      [] a.k = "ninf" -> PInf
      [] a.k = "nan" -> NaN
      [] a.k = "fin" -> Mk(-a.n, -a.l2, -a.l3, a.d)

FAdd(a, b) ==
    CASE IsNaN(a) \/ IsNaN(b) -> NaN
      [] a.k = "pinf" /\ b.k = "ninf" -> NaN
      [] a.k = "ninf" /\ b.k = "pinf" -> NaN
      [] a.k \in {"pinf", "ninf"} -> a
      [] b.k \in {"pinf", "ninf"} -> b
      [] OTHER -> Mk(a.n * b.d + b.n * a.d, a.l2 * b.d + b.l2 * a.d,
                     a.l3 * b.d + b.l3 * a.d, a.d * b.d)

FSub(a, b) == FAdd(a, FNeg(b))

\* a product; of two finite factors one has no logarithmic part
FMul(a, b) ==
    CASE IsNaN(a) \/ IsNaN(b) -> NaN
      [] ~IsFin(a) /\ IsZero(b) -> NaN
      [] IsZero(a) /\ ~IsFin(b) -> NaN
      [] ~IsFin(a) /\ IsFin(b) /\ ~IsRat(b) -> IF a.k = "pinf" THEN PInf ELSE NInf
      [] IsFin(a) /\ ~IsRat(a) /\ ~IsFin(b) -> IF b.k = "pinf" THEN PInf ELSE NInf
      [] ~IsFin(a) \/ ~IsFin(b) -> IF Sgn(a) * Sgn(b) > 0 THEN PInf ELSE NInf
      [] IsRat(a) -> Mk(a.n * b.n, a.n * b.l2, a.n * b.l3, a.d * b.d)
      [] IsRat(b) -> Mk(a.n * b.n, b.n * a.l2, b.n * a.l3, a.d * b.d)

\* numpy true division; a finite divisor has no logarithmic part
FDiv(a, b) ==
    CASE IsNaN(a) \/ IsNaN(b) -> NaN
      [] ~IsFin(a) /\ ~IsFin(b) -> NaN
      [] IsFin(a) /\ ~IsFin(b) -> Zero
      [] IsZero(b) /\ IsZero(a) -> NaN
      [] IsZero(b) /\ IsFin(a) /\ ~IsRat(a) -> PInf
      [] IsZero(b) -> IF Sgn(a) > 0 THEN PInf ELSE NInf
      [] ~IsFin(a) /\ IsRat(b) -> IF Sgn(a) * Sgn(b) > 0 THEN PInf ELSE NInf
      [] IsFin(a) /\ IsRat(b) -> Mk(a.n * b.d, a.l2 * b.d, a.l3 * b.d, a.d * b.n)

\* comparisons; False as soon as one side is nan
FLe(a, b) ==
    CASE IsNaN(a) \/ IsNaN(b) -> FALSE
      [] a.k = "ninf" \/ b.k = "pinf" -> TRUE
      [] a.k = "pinf" \/ b.k = "ninf" -> FALSE
      [] IsRat(a) /\ IsRat(b) -> a.n * b.d <= b.n * a.d

FLt(a, b) == ~IsNaN(a) /\ ~IsNaN(b) /\ ~FLe(b, a)
FGe(a, b) == FLe(b, a)
FGt(a, b) == FLt(b, a)

FAbs(a) ==
    CASE IsNaN(a) -> NaN
      [] ~IsFin(a) -> PInf
      [] IsRat(a) -> Mk(Abs(a.n), 0, 0, a.d)

\* np.maximum
FMax(a, b) == IF IsNaN(a) \/ IsNaN(b) THEN NaN ELSE IF FLe(a, b) THEN b ELSE a

\* the exponent of the prime p in the positive integer i
RECURSIVE Val(_, _)
Val(p, i) == IF i % p = 0 THEN 1 + Val(p, i \div p) ELSE 0

RECURSIVE Pow(_, _)
Pow(b, e) == IF e = 0 THEN 1 ELSE b * Pow(b, e - 1)

\* i = 2^a * 3^b
Smooth(i) == i = Pow(2, Val(2, i)) * Pow(3, Val(3, i))

\* np.log, on a number without logarithmic part whose numerator and
\* denominator have the prime factors 2 and 3 only
FLog(a) ==
    CASE IsNaN(a) -> NaN
      [] a.k = "pinf" -> PInf
      [] a.k = "ninf" -> NaN
      [] IsRat(a) /\ a.n < 0 -> NaN
      [] IsRat(a) /\ a.n = 0 -> NInf
      [] IsRat(a) /\ a.n > 0 /\ Smooth(a.n) /\ Smooth(a.d) ->
            Mk(0, Val(2, a.n) - Val(2, a.d), Val(3, a.n) - Val(3, a.d), 1)

\* np.exp, on l2*ln 2 + l3*ln 3 and on the rationals outside the range of
\* float64 (exp overflows above 709.78 and underflows below -745.13)
FExp(a) ==
    CASE IsNaN(a) -> NaN
      [] a.k = "pinf" -> PInf
      [] a.k = "ninf" -> Zero
      [] IsFin(a) /\ a.n = 0 /\ a.d = 1 ->
            Mk(Pow(2, IF a.l2 > 0 THEN a.l2 ELSE 0) * Pow(3, IF a.l3 > 0 THEN a.l3 ELSE 0),
               0, 0,
               Pow(2, IF a.l2 < 0 THEN -a.l2 ELSE 0) * Pow(3, IF a.l3 < 0 THEN -a.l3 ELSE 0))
      [] IsRat(a) /\ a.n >= 710 * a.d -> PInf
      [] IsRat(a) /\ a.n <= (-746) * a.d -> Zero

\* scipy.special.xlogy(x, y): 0 where x = 0 and y is not nan, else x*log(y)
Xlogy(x, y) == IF IsZero(x) /\ ~IsNaN(y) THEN Zero ELSE FMul(x, FLog(y))

(***************************************************************************)
(* Elements of rn(Dim): sequences of numbers.                              *)
(***************************************************************************)
Idx == 1..Dim

VecOf(S) == [Idx -> S]

RECURSIVE SumTo(_, _)
SumTo(v, i) == IF i = 0 THEN Zero ELSE FAdd(SumTo(v, i - 1), v[i])

\* x.inner(space.one()) and x.ufuncs.sum(): the sum of the components
VSum(v) == SumTo(v, Len(v))

VMap2(F(_, _), u, v) == [i \in DOMAIN u |-> F(u[i], v[i])]
VMap(F(_), u) == [i \in DOMAIN u |-> F(u[i])]
VConst(c) == [i \in Idx |-> c]

\* x.inner(y) on an unweighted space
Inner(u, v) == VSum(VMap2(FMul, u, v))

(***************************************************************************)
(* Results of an operation: a returned number, a raised exception, or      *)
(* nothing yet.  An operator that returns an element leaves it in out.     *)
(***************************************************************************)
NoRet == [tag |-> "none", v |-> Zero, err |-> ""]
Value(v) == [tag |-> "value", v |-> v, err |-> ""]
Raise(e) == [tag |-> "raise", v |-> Zero, err |-> e]
Returned == [tag |-> "element", v |-> Zero, err |-> ""]
NoElem == <<>>

NoFunc == [cls |-> "None"]

(***************************************************************************)
(* The Kullback-Leibler family.  A prior is None or an element.            *)
(***************************************************************************)
NoPrior == [given |-> FALSE, v |-> NoElem]
Prior(g) == [given |-> TRUE, v |-> g]

KLClasses == {"KullbackLeibler", "KullbackLeiblerConvexConj",
              "KullbackLeiblerCrossEntropy",
              "KullbackLeiblerCrossEntropyConvexConj"}

\* prior not in self.domain
InDomain(v) == Len(v) = Dim

\* KullbackLeibler._call with prior * log(prior / x) in the place of xlogy
KullbackLeibler_call_nolimit(f, x) ==
    LET res == IF ~f.prior.given
               THEN VSum(VMap(LAMBDA t : FSub(FSub(t, One), FLog(t)), x))
               ELSE LET xlogy == VMap2(LAMBDA g, t : FMul(g, FLog(FDiv(g, t))),
                                       f.prior.v, x)
                    IN  VSum(VMap2(FAdd, VMap2(FSub, x, f.prior.v), xlogy))
    IN  IF ~IsFinite(res) THEN PInf ELSE res

\* KullbackLeibler._call
KullbackLeibler_call(f, x) ==
    LET res == IF ~f.prior.given
               THEN VSum(VMap(LAMBDA t : FSub(FSub(t, One), FLog(t)), x))
               ELSE LET xlogy == VMap2(LAMBDA g, t : Xlogy(g, FDiv(g, t)), f.prior.v, x)
                    IN  VSum(VMap2(FAdd, VMap2(FSub, x, f.prior.v), xlogy))
    IN  IF ~IsFinite(res) THEN PInf ELSE res

\* KullbackLeiblerConvexConj._call
KullbackLeiblerConvexConj_call(f, x) ==
    LET res == IF ~f.prior.given
               THEN FNeg(VSum(VMap(LAMBDA t : FLog(FSub(One, t)), x)))
               ELSE LET xlogy == VMap2(LAMBDA g, t : Xlogy(g, FSub(One, t)), f.prior.v, x)
                    IN  FNeg(VSum(xlogy))
    IN  IF ~IsFinite(res) THEN PInf ELSE res

\* KullbackLeiblerCrossEntropy._call
KullbackLeiblerCrossEntropy_call(f, x) ==
    LET res == IF ~f.prior.given
               THEN LET xlogx == VMap(LAMBDA t : Xlogy(t, t), x)
                    IN  VSum(VMap2(FAdd, VMap(LAMBDA t : FSub(One, t), x), xlogx))
               ELSE LET xlogy == VMap2(LAMBDA g, t : Xlogy(t, FDiv(t, g)), f.prior.v, x)
                    IN  VSum(VMap2(FAdd, VMap2(FSub, f.prior.v, x), xlogy))
    IN  IF ~IsFinite(res) THEN PInf ELSE res

\* KullbackLeiblerCrossEntropyConvexConj._call
KullbackLeiblerCrossEntropyConvexConj_call(f, x) ==
    IF ~f.prior.given
    THEN VSum(VMap(LAMBDA t : FSub(FExp(t), One), x))
    ELSE VSum(VMap2(LAMBDA g, t : FMul(g, FSub(FExp(t), One)), f.prior.v, x))

KL_call(f, x) ==
    CASE f.cls = "KullbackLeibler" -> KullbackLeibler_call(f, x)
      [] f.cls = "KullbackLeiblerConvexConj" -> KullbackLeiblerConvexConj_call(f, x)
      [] f.cls = "KullbackLeiblerCrossEntropy" -> KullbackLeiblerCrossEntropy_call(f, x)
      [] f.cls = "KullbackLeiblerCrossEntropyConvexConj" ->
            KullbackLeiblerCrossEntropyConvexConj_call(f, x)

\* KullbackLeibler.gradient: KLGradient._call
KLGradient_call(f, x) ==
    [ret |-> Returned,
     out |-> IF ~f.prior.given
             THEN VMap(LAMBDA t : FAdd(FDiv(Fin(-1), t), One), x)
             ELSE VMap2(LAMBDA g, t : FAdd(FDiv(FNeg(g), t), One), f.prior.v, x)]

\* KullbackLeiblerConvexConj.gradient: KLCCGradient._call
KLCCGradient_call(f, x) ==
    [ret |-> Returned,
     out |-> IF ~f.prior.given
             THEN VMap(LAMBDA t : FDiv(One, FSub(One, t)), x)
             ELSE VMap2(LAMBDA g, t : FDiv(g, FSub(One, t)), f.prior.v, x)]

\* KLCrossEntropyGradient._call without its check of the result, as the
\* gradient of KullbackLeibler is written
KLCrossEntropyGradient_call_unchecked(f, x) ==
    [ret |-> Returned,
     out |-> IF ~f.prior.given
             THEN VMap(FLog, x)
             ELSE VMap2(LAMBDA g, t : FLog(FDiv(t, g)), f.prior.v, x)]

\* KullbackLeiblerCrossEntropy.gradient: KLCrossEntropyGradient._call
KLCrossEntropyGradient_call(f, x) ==
    LET tmp == IF ~f.prior.given
               THEN VMap(FLog, x)
               ELSE VMap2(LAMBDA g, t : FLog(FDiv(t, g)), f.prior.v, x)
    IN  IF \A i \in DOMAIN tmp : IsFinite(tmp[i])
        THEN [ret |-> Returned, out |-> tmp]
        ELSE [ret |-> Raise("ValueError"), out |-> NoElem]

\* KullbackLeiblerCrossEntropyConvexConj.gradient: KLCrossEntCCGradient._call
KLCrossEntCCGradient_call(f, x) ==
    [ret |-> Returned,
     out |-> IF ~f.prior.given
             THEN VMap(FExp, x)
             ELSE VMap2(LAMBDA g, t : FMul(g, FExp(t)), f.prior.v, x)]

KL_gradient(f, x) ==
    CASE f.cls = "KullbackLeibler" -> KLGradient_call(f, x)
      [] f.cls = "KullbackLeiblerConvexConj" -> KLCCGradient_call(f, x)
      [] f.cls = "KullbackLeiblerCrossEntropy" -> KLCrossEntropyGradient_call(f, x)
      [] f.cls = "KullbackLeiblerCrossEntropyConvexConj" -> KLCrossEntCCGradient_call(f, x)

\* convex_conj with the prior left at its default None
KL_convex_conj_noprior(f) ==
    [cls |-> IF f.cls = "KullbackLeibler" THEN "KullbackLeiblerConvexConj"
             ELSE IF f.cls = "KullbackLeiblerConvexConj" THEN "KullbackLeibler"
             ELSE IF f.cls = "KullbackLeiblerCrossEntropy"
             THEN "KullbackLeiblerCrossEntropyConvexConj"
             ELSE "KullbackLeiblerCrossEntropy",
     domain |-> f.domain, prior |-> NoPrior]

\* the convex_conj properties of the four functionals
KL_convex_conj(f) ==
    CASE f.cls = "KullbackLeibler" ->
            [cls |-> "KullbackLeiblerConvexConj", domain |-> f.domain, prior |-> f.prior]
      [] f.cls = "KullbackLeiblerConvexConj" ->
            [cls |-> "KullbackLeibler", domain |-> f.domain, prior |-> f.prior]
      [] f.cls = "KullbackLeiblerCrossEntropy" ->
            [cls |-> "KullbackLeiblerCrossEntropyConvexConj", domain |-> f.domain,
             prior |-> f.prior]
      [] f.cls = "KullbackLeiblerCrossEntropyConvexConj" ->
            [cls |-> "KullbackLeiblerCrossEntropy", domain |-> f.domain,
             prior |-> f.prior]

\* the values of the components of a prior: nonnegative
PriorVals == {Fin(0), Fin(1), Fin(2)}
\* the components of the points at which the logarithmic functionals are used
LogPoints == {Fin(-1), Fin(0), Fin(1), Fin(2)}
\* the components of the points at which the exponential functional is used:
\* 0, ln 2, -ln 2, and 1024, where float64's exp overflows
ExpPoints == {Fin(0), Mk(0, 1, 0, 1), Mk(0, -1, 0, 1), Fin(1024)}

PointsOf(cls) ==
    IF cls = "KullbackLeiblerCrossEntropyConvexConj"
    THEN VecOf(ExpPoints) ELSE VecOf(LogPoints)

\* an element of another space, rn(Dim + 1)
Foreign == [i \in 1..(Dim + 1) |-> One]

Priors == {NoPrior} \cup {Prior(g) : g \in VecOf(PriorVals)} \cup {Prior(Foreign)}

\* the state after __init__ of one of the four functionals on rn(Dim), arg
\* being the prior passed: prior not in the domain raises ValueError and no
\* functional exists
KLInit(cls, prior) ==
    /\ arg = (IF prior.given THEN prior.v ELSE NoElem)
    /\ out = NoElem
    /\ depth = 0
    /\ op = "init"
    /\ IF prior.given /\ ~InDomain(prior.v)
       THEN /\ ret = Raise("ValueError")
            /\ func = NoFunc
            /\ orig = NoFunc
       ELSE /\ ret = NoRet
            /\ func = [cls |-> cls, domain |-> Dim, prior |-> prior]
            /\ orig = func

InitKL == \E cls \in KLClasses, prior \in Priors : KLInit(cls, prior)

\* an operator has been applied and its result not yet taken by the caller
Busy == op \in {"call", "gradient", "proximal", "getitem", "gradient_call",
                "derivative"}

\* the caller takes the result of the last application
Return ==
    /\ Busy
    /\ op' = "idle"
    /\ arg' = NoElem
    /\ out' = NoElem
    /\ ret' = NoRet
    /\ UNCHANGED <<func, orig, depth>>

\* func(x)
KLCall(x) ==
    /\ ~Busy
    /\ func.cls \in KLClasses
    /\ op' = "call"
    /\ arg' = x
    /\ out' = NoElem
    /\ ret' = Value(KL_call(func, x))
    /\ UNCHANGED <<func, orig, depth>>

\* func.gradient(x)
KLGradient(x) ==
    /\ ~Busy
    /\ func.cls \in KLClasses
    /\ op' = "gradient"
    /\ arg' = x
    /\ out' = KL_gradient(func, x).out
    /\ ret' = KL_gradient(func, x).ret
    /\ UNCHANGED <<func, orig, depth>>

\* func.convex_conj
KLConvexConj ==
    /\ ~Busy
    /\ func.cls \in KLClasses
    /\ func' = KL_convex_conj(func)
    /\ op' = "convex_conj"
    /\ arg' = NoElem
    /\ out' = NoElem
    /\ ret' = NoRet
    /\ UNCHANGED <<orig, depth>>

NextKL ==
    \/ \E x \in PointsOf(func.cls) : KLCall(x)
    \/ \E x \in PointsOf(func.cls) : KLGradient(x)
    \/ KLConvexConj
    \/ Return

SpecKL == InitKL /\ [][NextKL]_vars

(***************************************************************************)
(* IndicatorSimplex and IndicatorSumConstraint.                            *)
(* A space is rn(size, dtype).  A tolerance is the number m * 10^(-e): the *)
(* default tolerances 1e-10*size and 1e-6*size keep their decimal exponent.*)
(***************************************************************************)
Space(dtype) == [size |-> Dim, dtype |-> dtype]

\* the exponents of the default tolerances 1e-10 and 1e-6
RtolExpFloat64 == 10
RtolExpOther == 6

Tol(m, e) == [m |-> m, e |-> e]

\* a <= m * 10^(-e)
RECURSIVE LeTol(_, _)
LeTol(a, tol) ==
    IF tol.e = 0 THEN FLe(a, tol.m)
    ELSE IF ~FLe(a, tol.m) THEN FALSE
    ELSE LeTol(FMul(a, Fin(10)), Tol(tol.m, tol.e - 1))

\* the default of sum_rtol in both constructors
DefaultRtol(space) ==
    IF space.dtype = "float64"
    THEN Tol(Fin(space.size), RtolExpFloat64)
    ELSE Tol(Fin(space.size), RtolExpOther)

NoTol == [given |-> FALSE, v |-> Zero]
GivenTol(r) == [given |-> TRUE, v |-> r]

\* IndicatorSimplex.__init__
IndicatorSimplex_init(space, diameter, sum_rtol) ==
    [cls |-> "IndicatorSimplex", domain |-> space, diameter |-> diameter,
     sum_rtol |-> IF ~sum_rtol.given THEN DefaultRtol(space) ELSE Tol(sum_rtol.v, 0)]

\* IndicatorSumConstraint.__init__
IndicatorSumConstraint_init(space, sum_value, sum_rtol) ==
    [cls |-> "IndicatorSumConstraint", domain |-> space, sum_value |-> sum_value,
     sum_rtol |-> IF ~sum_rtol.given THEN DefaultRtol(space) ELSE Tol(sum_rtol.v, 0)]

\* IndicatorSimplex._call with x > 0 in the place of x >= 0
IndicatorSimplex_call_strict(f, x) ==
    LET sum_constr == LeTol(FAbs(FSub(FDiv(VSum(x), f.diameter), One)), f.sum_rtol)
        nonneq_constr == \A i \in DOMAIN x : FGt(x[i], Zero)
    IN  IF sum_constr /\ nonneq_constr THEN Zero ELSE PInf

\* IndicatorSimplex._call
IndicatorSimplex_call(f, x) ==
    LET sum_constr == LeTol(FAbs(FSub(FDiv(VSum(x), f.diameter), One)), f.sum_rtol)
        nonneq_constr == \A i \in DOMAIN x : FGe(x[i], Zero)
    IN  IF sum_constr /\ nonneq_constr THEN Zero ELSE PInf

\* IndicatorSumConstraint._call
IndicatorSumConstraint_call(f, x) ==
    IF LeTol(FAbs(FSub(FDiv(VSum(x), f.sum_value), One)), f.sum_rtol)
    THEN Zero ELSE PInf

\* x_sor: the components in descending order
RECURSIVE InsertDesc(_, _)
InsertDesc(s, e) ==
    IF s = <<>> THEN <<e>>
    ELSE IF FGe(e, Head(s)) THEN <<e>> \o s
    ELSE <<Head(s)>> \o InsertDesc(Tail(s), e)

RECURSIVE SortDescTo(_, _)
SortDescTo(x, i) == IF i = 0 THEN <<>> ELSE InsertDesc(SortDescTo(x, i - 1), x[i])

SortDesc(x) == SortDescTo(x, Len(x))

\* proj_simplex(x, diameter, out): the projection onto the simplex by sorting
\* and thresholding [D+2008]
proj_simplex(x, diameter) ==
    LET x_sor == SortDesc(x)
        x_avrg == [j \in DOMAIN x |-> FDiv(FSub(SumTo(x_sor, j), diameter), Fin(j))]
        crit == [j \in DOMAIN x |-> FSub(x_sor[j], x_avrg[j])]
        hits == {j \in DOMAIN x : FGe(crit[j], Zero)}
    IN  IF hits = {}
        THEN [ret |-> Raise("ValueError"), out |-> NoElem]
        ELSE LET i == CHOOSE j \in hits : \A l \in hits : l <= j
             IN  [ret |-> Returned,
                  out |-> [l \in DOMAIN x |-> FMax(FSub(x[l], x_avrg[i]), Zero)]]

\* ProximalSimplex.__init__
ProximalSimplex_init(sigma) == [sigma |-> sigma]

\* ProximalSimplex._call with the step size in the place of the diameter
ProximalSimplex_call_sigma(f, self, x) == proj_simplex(x, self.sigma)

\* IndicatorSimplex.proximal: ProximalSimplex._call
ProximalSimplex_call(f, self, x) == proj_simplex(x, f.diameter)

\* ProximalSum.__init__
ProximalSum_init(sigma) == [sigma |-> sigma]

\* IndicatorSumConstraint.proximal: ProximalSum._call(x, out).  self is the
\* operator, whose attributes are those set by ProximalSum.__init__
ProximalSum_call(f, self, x, out0) ==
    IF "sum_value" \notin DOMAIN self
    THEN [ret |-> Raise("AttributeError"), out |-> out0]
    ELSE LET offset == FMul(FDiv(One, Fin(Len(x))), FSub(self.sum_value, VSum(x)))
         IN  [ret |-> Returned, out |-> [i \in DOMAIN x |-> FAdd(x[i], offset)]]

\* the proximal operator of f with step size sigma, applied to x
Ind_proximal(f, sigma, x, out0) ==
    IF f.cls = "IndicatorSimplex"
    THEN ProximalSimplex_call(f, ProximalSimplex_init(sigma), x)
    ELSE ProximalSum_call(f, ProximalSum_init(sigma), x, out0)

Ind_call(f, x) ==
    IF f.cls = "IndicatorSimplex"
    THEN IndicatorSimplex_call(f, x)
    ELSE IndicatorSumConstraint_call(f, x)

IndClasses == {"IndicatorSimplex", "IndicatorSumConstraint"}

Dtypes == {"float64", "float32"}
\* diameter of a simplex: positive
Diameters == {Fin(1), Fin(2)}
SumValues == {Fin(1), Fin(0), Fin(-2)}
Rtols == {NoTol, GivenTol(Rat(1, 4))}
Sigmas == {Fin(1), Fin(3)}
IndVals == {Fin(-1), Fin(0), Rat(1, 2), Fin(1), Fin(2)}
\* 1 + 1e-7, between the two default tolerances
NearOne == Rat(10000001, 10000000)
NearPoint == [i \in Idx |-> IF i = 1 THEN NearOne ELSE Zero]

\* the state after __init__
IndInit(f) ==
    /\ func = f
    /\ orig = f
    /\ depth = 0
    /\ op = "init"
    /\ arg = NoElem
    /\ out = NoElem
    /\ ret = NoRet

InitInd ==
    \E dt \in Dtypes, r \in Rtols :
        \/ \E d \in Diameters : IndInit(IndicatorSimplex_init(Space(dt), d, r))
        \/ \E v \in SumValues : IndInit(IndicatorSumConstraint_init(Space(dt), v, r))

\* func(x)
IndCall(x) ==
    /\ ~Busy
    /\ func.cls \in IndClasses
    /\ op' = "call"
    /\ arg' = x
    /\ out' = NoElem
    /\ ret' = Value(Ind_call(func, x))
    /\ UNCHANGED <<func, orig, depth>>

\* func.proximal(sigma)(x), the operator allocating its out
IndProximal(sigma, x) ==
    /\ ~Busy
    /\ func.cls \in IndClasses
    /\ op' = "proximal"
    /\ arg' = x
    /\ out' = Ind_proximal(func, sigma, x, NoElem).out
    /\ ret' = Ind_proximal(func, sigma, x, NoElem).ret
    /\ UNCHANGED <<func, orig, depth>>

\* func.proximal(sigma)(y) for the element y the last application returned
IndProximalAgain(sigma) ==
    /\ op = "proximal"
    /\ ret = Returned
    /\ func.cls \in IndClasses
    /\ op' = "proximal"
    /\ arg' = out
    /\ out' = Ind_proximal(func, sigma, out, NoElem).out
    /\ ret' = Ind_proximal(func, sigma, out, NoElem).ret
    /\ UNCHANGED <<func, orig, depth>>

\* func.gradient: raises for both functionals
IndGradient ==
    /\ ~Busy
    /\ func.cls \in IndClasses
    /\ op' = "gradient"
    /\ arg' = NoElem
    /\ out' = NoElem
    /\ ret' = Raise("NotImplementedError")
    /\ UNCHANGED <<func, orig, depth>>

\* func.convex_conj: raises for both functionals
IndConvexConj ==
    /\ ~Busy
    /\ func.cls \in IndClasses
    /\ op' = "convex_conj"
    /\ arg' = NoElem
    /\ out' = NoElem
    /\ ret' = Raise("NotImplementedError")
    /\ UNCHANGED <<func, orig, depth>>

NextInd ==
    \/ \E x \in VecOf(IndVals) \cup {NearPoint} : IndCall(x)
    \/ \E sigma \in Sigmas, x \in VecOf(IndVals) : IndProximal(sigma, x)
    \/ \E sigma \in Sigmas : IndProximalAgain(sigma)
    \/ IndGradient
    \/ IndConvexConj
    \/ Return

SpecInd == InitInd /\ [][NextInd]_vars

(***************************************************************************)
(* The norm families: LpNorm, GroupL1Norm, NuclearNorm and the indicators  *)
(* of their unit balls.  A space is a tensor space or a product space of   *)
(* parts; a power space is a product of identical parts.                   *)
(***************************************************************************)
(***************************************************************************)
(* Exponents are Python floats: IEEE 754 binary64 numbers, rounded to the   *)
(* nearest with ties to even.  A finite nonzero float is                    *)
(* (-1)^neg * m * 2^e with a 53-bit significand 2^52 <= m < 2^53 kept in    *)
(* two limbs, m = hi * 2^28 + lo.  The sign of zero and the limits of the   *)
(* exponent range are not modelled.                                         *)
(***************************************************************************)
LimbBase == 2^28
\* the limb hi of a significand lies in HiMin .. HiMax - 1
HiMin == 2^24
HiMax == 2^25
\* the number of quotient bits a division produces after the first
QuotBits == 54

W(hi, lo) == [hi |-> hi, lo |-> lo]
WZero == W(0, 0)
WGe(a, b) == a.hi > b.hi \/ (a.hi = b.hi /\ a.lo >= b.lo)
WAdd(a, b) ==
    IF a.lo + b.lo >= LimbBase THEN W(a.hi + b.hi + 1, a.lo + b.lo - LimbBase)
    ELSE W(a.hi + b.hi, a.lo + b.lo)
WSub(a, b) ==
    IF a.lo >= b.lo THEN W(a.hi - b.hi, a.lo - b.lo)
    ELSE W(a.hi - b.hi - 1, a.lo + LimbBase - b.lo)
WDouble(a) == W(2 * a.hi + (2 * a.lo) \div LimbBase, (2 * a.lo) % LimbBase)
WHalve(a) == W(a.hi \div 2, a.lo \div 2 + (a.hi % 2) * (LimbBase \div 2))
WOdd(a) == a.lo % 2 = 1
RECURSIVE WShift(_, _)
\* a * 2^n
WShift(a, n) == IF n = 0 \/ a = WZero THEN a ELSE WShift(WDouble(a), n - 1)

DPInf == [k |-> "pinf", neg |-> FALSE, hi |-> 0, lo |-> 0, e |-> 0]
DNInf == [k |-> "ninf", neg |-> TRUE, hi |-> 0, lo |-> 0, e |-> 0]
DNaN == [k |-> "nan", neg |-> FALSE, hi |-> 0, lo |-> 0, e |-> 0]
DZero == [k |-> "fin", neg |-> FALSE, hi |-> 0, lo |-> 0, e |-> 0]
DIsFin(x) == x.k = "fin"
DIsZero(x) == x = DZero
DSig(x) == W(x.hi, x.lo)

RECURSIVE DRound(_, _, _, _, _)
\* the float nearest to (-1)^neg * (w + t) * 2^e, where 0 <= t < 1 is the
\* dropped part: t >= 1/2 iff guard, and t is neither 0 nor 1/2 iff sticky
DRound(neg, w, e, guard, sticky) ==
    CASE w.hi >= HiMax -> DRound(neg, WHalve(w), e + 1, WOdd(w), sticky \/ guard)
      [] w = WZero /\ ~guard /\ ~sticky -> DZero
      [] w # WZero /\ w.hi < HiMin /\ ~guard /\ ~sticky ->
            DRound(neg, WDouble(w), e - 1, FALSE, FALSE)
      [] w.hi >= HiMin /\ w.hi < HiMax ->
            LET up == guard /\ (sticky \/ WOdd(w))
                r == IF up THEN WAdd(w, W(0, 1)) ELSE w
            IN  IF r.hi >= HiMax
                THEN [k |-> "fin", neg |-> neg, hi |-> HiMin, lo |-> 0, e |-> e + 1]
                ELSE [k |-> "fin", neg |-> neg, hi |-> r.hi, lo |-> r.lo, e |-> e]

\* float(n / 2^k) for an integer n
Dyadic(n, k) == DRound(n < 0, W(0, Abs(n)), 0 - k, FALSE, FALSE)
DOne == Dyadic(1, 0)
DTwo == Dyadic(2, 0)

\* x - 1.0; not modelled for 2^-57 <= |x| < 2^-3
DSubOne(x) ==
    CASE x.k # "fin" -> x
      [] DIsZero(x) -> Dyadic(-1, 0)
      [] DIsFin(x) /\ ~DIsZero(x) /\ x.e > 3 -> x
      [] DIsFin(x) /\ ~DIsZero(x) /\ x.e \in 1..3 ->
            LET v == WShift(DSig(x), x.e)
            IN  IF x.neg THEN DRound(TRUE, WAdd(v, W(0, 1)), 0, FALSE, FALSE)
                ELSE DRound(FALSE, WSub(v, W(0, 1)), 0, FALSE, FALSE)
      [] DIsFin(x) /\ ~DIsZero(x) /\ x.e \in -55..0 ->
            LET one == WShift(W(0, 1), 0 - x.e)
            IN  IF x.neg THEN DRound(TRUE, WAdd(DSig(x), one), x.e, FALSE, FALSE)
                ELSE IF WGe(DSig(x), one)
                THEN DRound(FALSE, WSub(DSig(x), one), x.e, FALSE, FALSE)
                ELSE DRound(TRUE, WSub(one, DSig(x)), x.e, FALSE, FALSE)
      [] DIsFin(x) /\ ~DIsZero(x) /\ x.e < -110 -> Dyadic(-1, 0)

RECURSIVE LongDiv(_, _, _, _)
\* n more bits of the quotient q, of a remainder r < 2 * d; the quotient
\* stays below 2^56, so its limb hi stays below LimbBase
LongDiv(r, d, q, n) ==
    LET bit == WGe(r, d)
        r1 == IF bit THEN WSub(r, d) ELSE r
        q1 == IF bit THEN WAdd(WDouble(q), W(0, 1)) ELSE WDouble(q)
    IN  IF n = 0 \/ q1.hi >= LimbBase THEN [q |-> q1, r |-> r1]
        ELSE LongDiv(WDouble(r1), d, q1, n - 1)

\* x / y for y # 0 (Python raises ZeroDivisionError at y = 0)
DDiv(x, y) ==
    CASE x.k = "nan" \/ y.k = "nan" -> DNaN
      [] x.k \in {"pinf", "ninf"} /\ y.k \in {"pinf", "ninf"} -> DNaN
      [] x.k \in {"pinf", "ninf"} /\ DIsFin(y) /\ ~DIsZero(y) ->
            IF x.neg = y.neg THEN DPInf ELSE DNInf
      [] DIsFin(x) /\ y.k \in {"pinf", "ninf"} -> DZero
      [] DIsFin(x) /\ DIsFin(y) /\ DIsZero(x) /\ ~DIsZero(y) -> DZero
      [] DIsFin(x) /\ DIsFin(y) /\ ~DIsZero(x) /\ ~DIsZero(y) ->
            LET d == LongDiv(DSig(x), DSig(y), WZero, QuotBits)
            IN  DRound(x.neg # y.neg, d.q, x.e - y.e - QuotBits, FALSE, d.r # WZero)

\* 1 <= x <= +inf
DGeOne(x) == x.k = "pinf" \/ (DIsFin(x) /\ ~DIsZero(x) /\ ~x.neg /\ x.e >= -52)

TensorSpace == [kind |-> "tensor"]
PowerSpace(base) ==
    [kind |-> "product", is_power_space |-> TRUE, base |-> base, exponent |-> DTwo]
\* a product of two different spaces, with first part base
MixedSpace(base) ==
    [kind |-> "product", is_power_space |-> FALSE, base |-> base, exponent |-> DTwo]

\* isinstance(space, ProductSpace)
IsProductSpace(space) == space.kind = "product"

\* odl.util.conj_exponent
conj_exponent(exp) ==
    IF exp = DOne THEN DPInf
    ELSE IF exp = DPInf THEN DOne
    ELSE DDiv(exp, DSubOne(exp))

NoExponent == [given |-> FALSE, v |-> DZero]
Exponent(e) == [given |-> TRUE, v |-> e]

\* PointwiseNorm(vfspace, exponent): the default exponent is the space's
PointwiseNorm(vfspace, exponent) ==
    [exponent |-> IF exponent.given THEN exponent.v ELSE vfspace.exponent]

\* LpNorm.__init__
LpNorm_init(space, exponent) ==
    [cls |-> "LpNorm", domain |-> space, exponent |-> exponent]

\* L1Norm.__init__
L1Norm_init(space) == [cls |-> "L1Norm", domain |-> space, exponent |-> DOne]

\* L2Norm.__init__
L2Norm_init(space) == [cls |-> "L2Norm", domain |-> space, exponent |-> DTwo]

\* IndicatorLpUnitBall.__init__
IndicatorLpUnitBall_init(space, exponent) ==
    [cls |-> "IndicatorLpUnitBall", domain |-> space,
     norm |-> LpNorm_init(space, exponent), exponent |-> exponent]

\* GroupL1Norm.__init__
GroupL1Norm_init(vfspace, exponent) ==
    IF ~IsProductSpace(vfspace) THEN Raise("TypeError")
    ELSE IF ~vfspace.is_power_space THEN Raise("TypeError")
    ELSE [cls |-> "GroupL1Norm", domain |-> vfspace,
          pointwise_norm |-> PointwiseNorm(vfspace, exponent)]

\* IndicatorGroupL1UnitBall.__init__
IndicatorGroupL1UnitBall_init(vfspace, exponent) ==
    IF ~IsProductSpace(vfspace) THEN Raise("TypeError")
    ELSE IF ~vfspace.is_power_space THEN Raise("TypeError")
    ELSE [cls |-> "IndicatorGroupL1UnitBall", domain |-> vfspace,
          pointwise_norm |-> PointwiseNorm(vfspace, exponent)]

\* NuclearNorm.__init__
NuclearNorm_init(space, outer_exp, singular_vector_exp) ==
    IF ~IsProductSpace(space) THEN Raise("TypeError")
    ELSE IF ~IsProductSpace(space.base) THEN Raise("TypeError")
    ELSE IF ~space.is_power_space \/ ~space.base.is_power_space THEN Raise("TypeError")
    ELSE [cls |-> "NuclearNorm", domain |-> space,
          outernorm |-> LpNorm_init(space.base.base, outer_exp),
          pwisenorm |-> PointwiseNorm(space.base, Exponent(singular_vector_exp))]

\* IndicatorNuclearNormUnitBall.__init__
IndicatorNuclearNormUnitBall_init(space, outer_exp, singular_vector_exp) ==
    LET norm == NuclearNorm_init(space, outer_exp, singular_vector_exp)
    IN  IF "cls" \notin DOMAIN norm THEN norm
        ELSE [cls |-> "IndicatorNuclearNormUnitBall", domain |-> space, norm |-> norm]

\* LpNorm.convex_conj
LpNorm_convex_conj(f) ==
    IndicatorLpUnitBall_init(f.domain, conj_exponent(f.exponent))

\* IndicatorLpUnitBall.convex_conj
IndicatorLpUnitBall_convex_conj(f) ==
    IF f.exponent = DPInf THEN L1Norm_init(f.domain)
    ELSE IF f.exponent = DTwo THEN L2Norm_init(f.domain)
    ELSE LpNorm_init(f.domain, conj_exponent(f.exponent))

\* GroupL1Norm.convex_conj
GroupL1Norm_convex_conj(f) ==
    LET conj_exp == conj_exponent(f.pointwise_norm.exponent)
    IN  IndicatorGroupL1UnitBall_init(f.domain, Exponent(conj_exp))

\* IndicatorGroupL1UnitBall.convex_conj
IndicatorGroupL1UnitBall_convex_conj(f) ==
    LET conj_exp == conj_exponent(f.pointwise_norm.exponent)
    IN  GroupL1Norm_init(f.domain, Exponent(conj_exp))

\* NuclearNorm.convex_conj
NuclearNorm_convex_conj(f) ==
    IndicatorNuclearNormUnitBall_init(f.domain,
                                      conj_exponent(f.outernorm.exponent),
                                      conj_exponent(f.pwisenorm.exponent))

\* IndicatorNuclearNormUnitBall.convex_conj
IndicatorNuclearNormUnitBall_convex_conj(f) ==
    NuclearNorm_init(f.domain,
                     conj_exponent(f.norm.outernorm.exponent),
                     conj_exponent(f.norm.pwisenorm.exponent))

LpClasses == {"LpNorm", "L1Norm", "L2Norm"}
NormClasses == LpClasses \cup {"IndicatorLpUnitBall", "GroupL1Norm",
                               "IndicatorGroupL1UnitBall", "NuclearNorm",
                               "IndicatorNuclearNormUnitBall"}

Norm_convex_conj(f) ==
    CASE f.cls \in LpClasses -> LpNorm_convex_conj(f)
      [] f.cls = "IndicatorLpUnitBall" -> IndicatorLpUnitBall_convex_conj(f)
      [] f.cls = "GroupL1Norm" -> GroupL1Norm_convex_conj(f)
      [] f.cls = "IndicatorGroupL1UnitBall" -> IndicatorGroupL1UnitBall_convex_conj(f)
      [] f.cls = "NuclearNorm" -> NuclearNorm_convex_conj(f)
      [] f.cls = "IndicatorNuclearNormUnitBall" ->
            IndicatorNuclearNormUnitBall_convex_conj(f)

\* exponents of norms, and some that give no norm
NormExps == {DOne, Dyadic(3, 1), DTwo, Dyadic(3, 0), Dyadic(4, 0), DPInf}
LpExps == NormExps \cup {DZero, Dyadic(1, 1), DNInf}
GroupExps == {NoExponent} \cup {Exponent(e) : e \in NormExps}
NormSpaces == {TensorSpace, PowerSpace(TensorSpace), MixedSpace(TensorSpace),
               PowerSpace(PowerSpace(TensorSpace)),
               PowerSpace(MixedSpace(TensorSpace))}

\* the state after a constructor returned f or raised
NormInit(f) ==
    /\ depth = 0
    /\ op = "init"
    /\ arg = NoElem
    /\ out = NoElem
    /\ IF "cls" \in DOMAIN f
       THEN func = f /\ orig = f /\ ret = NoRet
       ELSE func = NoFunc /\ orig = NoFunc /\ ret = f

InitNorm ==
    \E space \in NormSpaces :
        \/ \E e \in LpExps : NormInit(LpNorm_init(space, e))
        \/ NormInit(L1Norm_init(space))
        \/ NormInit(L2Norm_init(space))
        \/ \E e \in LpExps : NormInit(IndicatorLpUnitBall_init(space, e))
        \/ \E e \in GroupExps : NormInit(GroupL1Norm_init(space, e))
        \/ \E e \in GroupExps : NormInit(IndicatorGroupL1UnitBall_init(space, e))
        \/ \E o \in NormExps, e \in NormExps : NormInit(NuclearNorm_init(space, o, e))
        \/ \E o \in NormExps, e \in NormExps :
              NormInit(IndicatorNuclearNormUnitBall_init(space, o, e))

\* func.convex_conj
NormConvexConj ==
    /\ ~Busy
    /\ func.cls \in NormClasses
    /\ depth < MaxConj
    /\ func' = Norm_convex_conj(func)
    /\ depth' = depth + 1
    /\ op' = "convex_conj"
    /\ arg' = NoElem
    /\ out' = NoElem
    /\ ret' = NoRet
    /\ UNCHANGED orig

NextNorm == NormConvexConj

SpecNorm == InitNorm /\ [][NextNorm]_vars

(***************************************************************************)
(* Evaluation, proximal and gradient of the norms, on R^Dim with weight 1. *)
(* Sums, products and quotients of rationals are exact; a root or a power  *)
(* that is not computed exactly is kept as a term.                         *)
(***************************************************************************)
\* np.sqrt of a rational that is not negative: the root if it is rational
Sqrt(a) ==
    IF \E r \in 0..a.n, t \in 1..a.d : r * r = a.n /\ t * t = a.d
    THEN LET r == CHOOSE r \in 0..a.n : r * r = a.n
             t == CHOOSE t \in 1..a.d : t * t = a.d
         IN  Rat(r, t)
    ELSE [k |-> "sqrt", of |-> a]

\* np.power(a, e) for a binary64 exponent e
PowerOf(a, e) == [k |-> "power", base |-> a, exp |-> e]
\* the sum of the components of an element whose components are terms
SumOf(v) == [k |-> "sum", terms |-> v]
\* a / b for a norm b that is not zero
Quotient(a, b) == IF "of" \in DOMAIN b THEN [k |-> "quotient", num |-> a, den |-> b]
                  ELSE FDiv(a, b)

FMin(a, b) == IF IsNaN(a) \/ IsNaN(b) THEN NaN ELSE IF FLe(a, b) THEN a ELSE b
RECURSIVE MaxTo(_, _)
MaxTo(v, i) == IF i = 1 THEN v[1] ELSE FMax(MaxTo(v, i - 1), v[i])
RECURSIVE MinTo(_, _)
MinTo(v, i) == IF i = 1 THEN v[1] ELSE FMin(MinTo(v, i - 1), v[i])
\* x.ufuncs.max() and x.ufuncs.min()
VMax(v) == MaxTo(v, Len(v))
VMin(v) == MinTo(v, Len(v))
\* x.ufuncs.sign()
FSign(a) == Fin(Sgn(a))
\* np.not_equal(x, 0), True counting as 1
NotEqualZero(a) == IF IsZero(a) THEN Zero ELSE One

\* an object returned to the caller
Object(o) == [tag |-> "object", v |-> Zero, err |-> "", obj |-> o]

\* LpNorm._call with the branches for the exponents 1 and 2 exchanged
LpNorm_call_swapped(f, x) ==
    IF f.exponent = DZero THEN Value(VSum(VMap(NotEqualZero, x)))
    ELSE IF f.exponent = DTwo THEN Value(VSum(VMap(FAbs, x)))
    ELSE IF f.exponent = DOne THEN Value(Sqrt(Inner(x, x)))
    ELSE IF DIsFin(f.exponent)
    THEN Value(PowerOf(SumOf([i \in DOMAIN x |-> PowerOf(FAbs(x[i]), f.exponent)]),
                       DDiv(DOne, f.exponent)))
    ELSE IF f.exponent = DPInf THEN Value(VMax(VMap(FAbs, x)))
    ELSE IF f.exponent = DNInf THEN Value(VMin(VMap(FAbs, x)))
    ELSE Raise("RuntimeError")

\* LpNorm._call
LpNorm_call(f, x) ==
    IF f.exponent = DZero THEN Value(VSum(VMap(NotEqualZero, x)))
    ELSE IF f.exponent = DOne THEN Value(VSum(VMap(FAbs, x)))
    ELSE IF f.exponent = DTwo THEN Value(Sqrt(Inner(x, x)))
    ELSE IF DIsFin(f.exponent)
    THEN Value(PowerOf(SumOf([i \in DOMAIN x |-> PowerOf(FAbs(x[i]), f.exponent)]),
                       DDiv(DOne, f.exponent)))
    ELSE IF f.exponent = DPInf THEN Value(VMax(VMap(FAbs, x)))
    ELSE IF f.exponent = DNInf THEN Value(VMin(VMap(FAbs, x)))
    ELSE Raise("RuntimeError")

\* a proximal factory of odl.solvers.nonsmooth.proximal_operators
Factory(name, space) == Object([cls |-> name, space |-> space])

\* LpNorm.proximal without its branch for the exponent +inf
LpNorm_proximal_noinf(f) ==
    IF f.exponent = DOne THEN Factory("proximal_l1", f.domain)
    ELSE IF f.exponent = DTwo THEN Factory("proximal_l2", f.domain)
    ELSE Raise("NotImplementedError")

\* LpNorm.proximal
LpNorm_proximal(f) ==
    IF f.exponent = DOne THEN Factory("proximal_l1", f.domain)
    ELSE IF f.exponent = DTwo THEN Factory("proximal_l2", f.domain)
    ELSE IF f.exponent = DPInf THEN Factory("proximal_linfty", f.domain)
    ELSE Raise("NotImplementedError")

\* L1Gradient.__init__ and L2Gradient.__init__
LpGradient_init(name, functional) ==
    [cls |-> name, domain |-> functional.domain, range |-> functional.domain,
     is_linear |-> FALSE]

\* LpNorm.gradient
LpNorm_gradient(f) ==
    IF f.exponent = DOne THEN Object(LpGradient_init("L1Gradient", f))
    ELSE IF f.exponent = DTwo THEN Object(LpGradient_init("L2Gradient", f))
    ELSE Raise("NotImplementedError")

\* L1Gradient._call
L1Gradient_call(g, x) == VMap(FSign, x)

\* L1Gradient.derivative
L1Gradient_derivative(g, x) == [cls |-> "ZeroOperator", domain |-> g.domain]

\* L2Gradient._call without the test of the norm
L2Gradient_call_unchecked(g, x) ==
    LET norm_of_x == Sqrt(Inner(x, x))
    IN  [i \in DOMAIN x |-> Quotient(x[i], norm_of_x)]

\* L2Gradient._call
L2Gradient_call(g, x) ==
    LET norm_of_x == Sqrt(Inner(x, x))
    IN  IF norm_of_x = Zero THEN VConst(Zero)
        ELSE [i \in DOMAIN x |-> Quotient(x[i], norm_of_x)]

\* the gradient operator g applied to x
LpGradient_call(g, x) ==
    IF g.cls = "L1Gradient" THEN L1Gradient_call(g, x) ELSE L2Gradient_call(g, x)

\* GroupL1Norm.proximal
GroupL1Norm_proximal(f) ==
    IF f.pointwise_norm.exponent = DOne THEN Factory("proximal_l1", f.domain)
    ELSE IF f.pointwise_norm.exponent = DTwo THEN Factory("proximal_l1_l2", f.domain)
    ELSE Raise("NotImplementedError")

\* NuclearNorm.proximal
NuclearNorm_proximal(f) ==
    IF f.outernorm.exponent # DOne THEN Raise("NotImplementedError")
    ELSE IF f.pwisenorm.exponent \notin {DOne, DTwo, DPInf}
    THEN Raise("NotImplementedError")
    ELSE Factory("NuclearNormProximal", f.domain)

ProximalClasses == LpClasses \cup {"GroupL1Norm", "NuclearNorm"}

Norm_proximal(f) ==
    CASE f.cls \in LpClasses -> LpNorm_proximal(f)
      [] f.cls = "GroupL1Norm" -> GroupL1Norm_proximal(f)
      [] f.cls = "NuclearNorm" -> NuclearNorm_proximal(f)

\* exponents of LpNorm, nan among them
LpCallExps == LpExps \cup {DNaN}
LpPoints == VecOf({Fin(-4), Zero, Fin(3), Fin(4)})

InitLp ==
    \/ \E e \in LpCallExps : NormInit(LpNorm_init(TensorSpace, e))
    \/ NormInit(L1Norm_init(TensorSpace))
    \/ NormInit(L2Norm_init(TensorSpace))
    \/ \E e \in GroupExps : NormInit(GroupL1Norm_init(PowerSpace(TensorSpace), e))
    \/ \E o \in NormExps, e \in NormExps :
          NormInit(NuclearNorm_init(PowerSpace(PowerSpace(TensorSpace)), o, e))

\* func(x)
LpCall(x) ==
    /\ ~Busy
    /\ func.cls \in LpClasses
    /\ op' = "call"
    /\ arg' = x
    /\ out' = NoElem
    /\ ret' = LpNorm_call(func, x)
    /\ UNCHANGED <<func, orig, depth>>

\* func.proximal
LpProximal ==
    /\ ~Busy
    /\ func.cls \in ProximalClasses
    /\ op' = "proximal"
    /\ arg' = NoElem
    /\ out' = NoElem
    /\ ret' = Norm_proximal(func)
    /\ UNCHANGED <<func, orig, depth>>

\* func.gradient
LpGradient ==
    /\ ~Busy
    /\ func.cls \in LpClasses
    /\ op' = "gradient"
    /\ arg' = NoElem
    /\ out' = NoElem
    /\ ret' = LpNorm_gradient(func)
    /\ UNCHANGED <<func, orig, depth>>

\* func.gradient(x), for a gradient that is implemented
LpGradientCall(x) ==
    /\ ~Busy
    /\ func.cls \in LpClasses
    /\ LET g == LpNorm_gradient(func)
       IN  /\ g.tag = "object"
           /\ out' = LpGradient_call(g.obj, x)
    /\ op' = "gradient_call"
    /\ arg' = x
    /\ ret' = Returned
    /\ UNCHANGED <<func, orig, depth>>

\* func.gradient.derivative(x), for the gradient that defines it
LpGradientDerivative(x) ==
    /\ ~Busy
    /\ func.cls \in LpClasses
    /\ LET g == LpNorm_gradient(func)
       IN  /\ g.tag = "object"
           /\ g.obj.cls = "L1Gradient"
           /\ ret' = Object(L1Gradient_derivative(g.obj, x))
    /\ op' = "derivative"
    /\ arg' = x
    /\ out' = NoElem
    /\ UNCHANGED <<func, orig, depth>>

NextLp ==
    \/ \E x \in LpPoints : LpCall(x)
    \/ LpProximal
    \/ LpGradient
    \/ \E x \in LpPoints : LpGradientCall(x)
    \/ \E x \in LpPoints : LpGradientDerivative(x)
    \/ Return

SpecLp == InitLp /\ [][NextLp]_vars

(***************************************************************************)
(* The proximal of the indicators, and of the conjugates of the norms.     *)
(***************************************************************************)
\* IndicatorLpUnitBall.proximal
IndicatorLpUnitBall_proximal(f) ==
    IF f.exponent = DPInf THEN Factory("proximal_convex_conj_l1", f.domain)
    ELSE IF f.exponent = DTwo THEN Factory("proximal_convex_conj_l2", f.domain)
    ELSE IF f.exponent = DOne THEN Factory("proximal_convex_conj_linfty", f.domain)
    ELSE Raise("NotImplementedError")

\* IndicatorGroupL1UnitBall.proximal testing the exponents its message names
IndicatorGroupL1UnitBall_proximal_message(f) ==
    IF f.pointwise_norm.exponent = DOne
    THEN Factory("proximal_convex_conj_l1", f.domain)
    ELSE IF f.pointwise_norm.exponent = DTwo
    THEN Factory("proximal_convex_conj_l1_l2", f.domain)
    ELSE Raise("NotImplementedError")

\* IndicatorGroupL1UnitBall.proximal
IndicatorGroupL1UnitBall_proximal(f) ==
    IF f.pointwise_norm.exponent = DPInf
    THEN Factory("proximal_convex_conj_l1", f.domain)
    ELSE IF f.pointwise_norm.exponent = DTwo
    THEN Factory("proximal_convex_conj_l1_l2", f.domain)
    ELSE Raise("NotImplementedError")

\* IndicatorNuclearNormUnitBall.proximal built on the proximal of its own
\* norm
IndicatorNuclearNormUnitBall_proximal_own(f) ==
    LET prox == NuclearNorm_proximal(f.norm)
    IN  IF prox.tag = "raise" THEN prox
        ELSE Object([cls |-> "proximal_convex_conj", prox |-> prox.obj])

\* IndicatorNuclearNormUnitBall.proximal
IndicatorNuclearNormUnitBall_proximal(f) ==
    LET prox == NuclearNorm_proximal(IndicatorNuclearNormUnitBall_convex_conj(f))
    IN  IF prox.tag = "raise" THEN prox
        ELSE Object([cls |-> "proximal_convex_conj", prox |-> prox.obj])

NormFamily_proximal(f) ==
    CASE f.cls \in ProximalClasses -> Norm_proximal(f)
      [] f.cls = "IndicatorLpUnitBall" -> IndicatorLpUnitBall_proximal(f)
      [] f.cls = "IndicatorGroupL1UnitBall" -> IndicatorGroupL1UnitBall_proximal(f)
      [] f.cls = "IndicatorNuclearNormUnitBall" ->
            IndicatorNuclearNormUnitBall_proximal(f)

\* 2^54, an exponent p with p - 1.0 = p in binary64
HugeExp == Dyadic(1, -54)
ProxExps == NormExps \cup {HugeExp}
ProxLpExps == LpExps \cup {HugeExp}
ProxGroupExps == {NoExponent} \cup {Exponent(e) : e \in ProxExps}

InitProx ==
    \/ \E e \in ProxLpExps : NormInit(LpNorm_init(TensorSpace, e))
    \/ NormInit(L1Norm_init(TensorSpace))
    \/ NormInit(L2Norm_init(TensorSpace))
    \/ \E e \in ProxLpExps : NormInit(IndicatorLpUnitBall_init(TensorSpace, e))
    \/ \E e \in ProxGroupExps :
          NormInit(GroupL1Norm_init(PowerSpace(TensorSpace), e))
    \/ \E e \in ProxGroupExps :
          NormInit(IndicatorGroupL1UnitBall_init(PowerSpace(TensorSpace), e))
    \/ \E o \in ProxExps, e \in ProxExps :
          NormInit(NuclearNorm_init(PowerSpace(PowerSpace(TensorSpace)), o, e))
    \/ \E o \in ProxExps, e \in ProxExps :
          NormInit(IndicatorNuclearNormUnitBall_init(
                       PowerSpace(PowerSpace(TensorSpace)), o, e))

\* func.proximal
ProxAccess ==
    /\ ~Busy
    /\ func.cls \in NormClasses
    /\ op' = "proximal"
    /\ arg' = NoElem
    /\ out' = NoElem
    /\ ret' = NormFamily_proximal(func)
    /\ UNCHANGED <<func, orig, depth>>

NextProx ==
    \/ ProxAccess
    \/ NormConvexConj
    \/ Return

SpecProx == InitProx /\ [][NextProx]_vars

(***************************************************************************)
(* Claims about the norm families.                                         *)
(***************************************************************************)
\* the family of a functional and whether it is the norm or the indicator
Family(f) ==
    CASE f.cls \in LpClasses \cup {"IndicatorLpUnitBall"} -> "Lp"
      [] f.cls \in {"GroupL1Norm", "IndicatorGroupL1UnitBall"} -> "GroupL1"
      [] f.cls \in {"NuclearNorm", "IndicatorNuclearNormUnitBall"} -> "Nuclear"

IsIndicator(f) ==
    f.cls \in {"IndicatorLpUnitBall", "IndicatorGroupL1UnitBall",
               "IndicatorNuclearNormUnitBall"}

\* the exponents of a functional
ExponentsOf(f) ==
    CASE Family(f) = "Lp" -> <<f.exponent>>
      [] Family(f) = "GroupL1" -> <<f.pointwise_norm.exponent>>
      [] f.cls = "NuclearNorm" -> <<f.outernorm.exponent, f.pwisenorm.exponent>>
      [] f.cls = "IndicatorNuclearNormUnitBall" ->
            <<f.norm.outernorm.exponent, f.norm.pwisenorm.exponent>>

\* C1: for exponents in [1, +inf], the convex conjugate of a norm of one of
\* the three families is the indicator of the unit ball of the same family
\* with the conjugate exponents and conversely; the conjugate of the
\* conjugate has the kind, the domain and the exponents of the functional one
\* started from; an Lp norm obtained as a conjugate is an L1Norm for p = 1
\* and an L2Norm for p = 2.
C1_NormBiconjugate ==
    (func.cls \in NormClasses /\ \A i \in DOMAIN ExponentsOf(orig) :
                                    DGeOne(ExponentsOf(orig)[i])) =>
        /\ Family(func) = Family(orig)
        /\ func.domain = orig.domain
        /\ depth = 1 =>
              /\ IsIndicator(func) = ~IsIndicator(orig)
              /\ \A i \in DOMAIN ExponentsOf(orig) :
                    ExponentsOf(func)[i] = conj_exponent(ExponentsOf(orig)[i])
        /\ depth = 2 =>
              /\ IsIndicator(func) = IsIndicator(orig)
              /\ ExponentsOf(func) = ExponentsOf(orig)
        /\ (op = "convex_conj" /\ func.cls \in LpClasses) =>
              func.cls = (IF func.exponent = DOne THEN "L1Norm"
                          ELSE IF func.exponent = DTwo THEN "L2Norm"
                          ELSE "LpNorm")

(* QuadraticForm.  A linear operator on rn(Dim) is its matrix; adjoint and *)
(* inverse are the transpose and the inverse matrix.  The domain of a      *)
(* functional is the number of components of its elements.                 *)
(***************************************************************************)
Rows(M) == DOMAIN M

\* operator(x)
MatVec(M, x) == [i \in Rows(M) |-> VSum([j \in Rows(M) |-> FMul(M[i][j], x[j])])]

\* operator.adjoint
Transpose(M) == [i \in Rows(M) |-> [j \in Rows(M) |-> M[j][i]]]

Minor(M, i, j) ==
    [r \in 1..(Len(M) - 1) |->
        [c \in 1..(Len(M) - 1) |->
            M[IF r < i THEN r ELSE r + 1][IF c < j THEN c ELSE c + 1]]]

RECURSIVE Det(_)
Det(M) ==
    IF Len(M) = 0 THEN One
    ELSE VSum([j \in Rows(M) |->
                 FMul(IF j % 2 = 1 THEN M[1][j] ELSE FNeg(M[1][j]),
                      Det(Minor(M, 1, j)))])

\* operator.inverse, of an invertible matrix
MatInverse(M) ==
    [i \in Rows(M) |->
        [j \in Rows(M) |->
            FDiv(IF (i + j) % 2 = 0 THEN Det(Minor(M, j, i))
                                    ELSE FNeg(Det(Minor(M, j, i))),
                 Det(M))]]

LinearOp(M) == [given |-> TRUE, linear |-> TRUE, mat |-> M]
NoOperator == [given |-> FALSE, linear |-> TRUE, mat |-> <<>>]
OpAdjoint(A) == LinearOp(Transpose(A.mat))
OpInverse(A) == LinearOp(MatInverse(A.mat))
\* an operator that is not linear: x |-> the squares of the components of mat x
NonLinearOp(M) == [given |-> TRUE, linear |-> FALSE, mat |-> M]
OpApply(A, x) ==
    IF A.linear THEN MatVec(A.mat, x)
    ELSE [i \in Rows(A.mat) |-> FMul(MatVec(A.mat, x)[i], MatVec(A.mat, x)[i])]

NoVector == [given |-> FALSE, v |-> NoElem]
Vector(b) == [given |-> TRUE, v |-> b]

VAdd(u, v) == VMap2(FAdd, u, v)
VSub(u, v) == VMap2(FSub, u, v)
VNeg(u) == VMap(FNeg, u)

\* a constant outside the real numbers
Complex == [k |-> "complex", n |-> 0, d |-> 1, l2 |-> 0, l3 |-> 0]
\* constant in self.range
InRange(c) == c.k # "complex"

\* QuadraticForm.__init__ with linear=(operator is None)
QuadraticForm_init_linear(operator, vector, constant) ==
    IF ~operator.given /\ ~vector.given THEN Raise("ValueError")
    ELSE IF operator.given /\ vector.given /\ Len(vector.v) # Len(operator.mat)
         THEN Raise("ValueError")
    ELSE IF ~InRange(constant) THEN Raise("ValueError")
    ELSE [cls |-> "QuadraticForm",
          domain |-> IF operator.given THEN Len(operator.mat) ELSE Len(vector.v),
          is_linear |-> ~operator.given,
          operator |-> operator, vector |-> vector, constant |-> constant]

\* QuadraticForm.__init__: the functional, or the error raised
QuadraticForm_init(operator, vector, constant) ==
    IF ~operator.given /\ ~vector.given THEN Raise("ValueError")
    ELSE IF operator.given /\ vector.given /\ Len(vector.v) # Len(operator.mat)
         THEN Raise("ValueError")
    ELSE IF ~InRange(constant) THEN Raise("ValueError")
    ELSE [cls |-> "QuadraticForm",
          domain |-> IF operator.given THEN Len(operator.mat) ELSE Len(vector.v),
          is_linear |-> (~operator.given /\ constant = Zero),
          operator |-> operator, vector |-> vector, constant |-> constant]

\* QuadraticForm._call
QuadraticForm_call(f, x) ==
    IF ~f.operator.given
    THEN FAdd(Inner(f.vector.v, x), f.constant)
    ELSE IF ~f.vector.given
         THEN FAdd(Inner(x, OpApply(f.operator, x)), f.constant)
         ELSE LET tmp == VAdd(OpApply(f.operator, x), f.vector.v)
              IN  FAdd(Inner(x, tmp), f.constant)

\* IndicatorZero.__init__
IndicatorZero_init(space, constant) ==
    [cls |-> "IndicatorZero", domain |-> space, constant |-> constant]

\* IndicatorZero._call: x.norm() == 0 iff every component is 0
IndicatorZero_call(f, x) ==
    IF \A i \in DOMAIN x : IsZero(x[i]) THEN f.constant ELSE PInf

\* Functional.translated(shift): x |-> f(x - shift)
Translated(f, shift) ==
    [cls |-> "FunctionalTranslation", domain |-> f.domain, functional |-> f,
     translation |-> shift]

\* QuadraticForm.convex_conj
QuadraticForm_convex_conj(f) ==
    IF ~f.operator.given
    THEN LET tmp == IndicatorZero_init(f.domain, FNeg(f.constant))
         IN  IF ~f.vector.given THEN tmp ELSE Translated(tmp, f.vector.v)
    ELSE IF ~f.vector.given
         THEN QuadraticForm_init(OpInverse(f.operator), NoVector, FNeg(f.constant))
         ELSE LET opinv == OpInverse(f.operator)
                  vector == VSub(VNeg(OpApply(OpAdjoint(opinv), f.vector.v)),
                                 OpApply(opinv, f.vector.v))
                  constant == FSub(Inner(f.vector.v, OpApply(opinv, f.vector.v)),
                                   f.constant)
              IN  QuadraticForm_init(opinv, Vector(vector), constant)

\* f(x) for the functionals a quadratic form and its conjugates are
QF_call(f, x) ==
    CASE f.cls = "QuadraticForm" -> QuadraticForm_call(f, x)
      [] f.cls = "IndicatorZero" -> IndicatorZero_call(f, x)
      [] f.cls = "FunctionalTranslation" ->
            IndicatorZero_call(f.functional, VSub(x, f.translation))

\* the operators: diagonal ones, a tridiagonal positive definite one, an
\* indefinite one, and one that is not self-adjoint
DiagMat(v) == [i \in Idx |-> [j \in Idx |-> IF i = j THEN v[i] ELSE Zero]]
TriMat == [i \in Idx |-> [j \in Idx |->
              IF i = j THEN Fin(2) ELSE IF i - j \in {-1, 1} THEN One ELSE Zero]]
IndefMat == [i \in Idx |-> [j \in Idx |->
              IF i # j THEN Zero ELSE IF i % 2 = 1 THEN One ELSE Fin(-1)]]
ShearMat == [i \in Idx |-> [j \in Idx |->
              IF i = j \/ (i = 1 /\ j = 2) THEN One ELSE Zero]]

Operators ==
    {NoOperator} \cup {LinearOp(DiagMat(v)) : v \in VecOf({Fin(1), Fin(2)})}
        \cup {LinearOp(TriMat), LinearOp(IndefMat), LinearOp(ShearMat)}
Unit1 == [i \in Idx |-> IF i = 1 THEN One ELSE Zero]
Vectors == {NoVector, Vector(VConst(Zero)), Vector(Unit1), Vector(VConst(Fin(2))),
            Vector(Foreign)}
Constants == {Zero, One, Complex}
QFPoints == VecOf({Fin(-1), Fin(0), Fin(2)})

\* the state after QuadraticForm(operator, vector, constant)
QFInit(operator, vector, constant) ==
    LET f == QuadraticForm_init(operator, vector, constant)
    IN  /\ depth = 0
        /\ op = "init"
        /\ arg = NoElem
        /\ out = NoElem
        /\ IF "cls" \in DOMAIN f
           THEN func = f /\ orig = f /\ ret = NoRet
           ELSE func = NoFunc /\ orig = NoFunc /\ ret = f

InitQF ==
    \E operator \in Operators, vector \in Vectors, constant \in Constants :
        QFInit(operator, vector, constant)

QFClasses == {"QuadraticForm", "IndicatorZero", "FunctionalTranslation"}

\* func(x)
QFCall(x) ==
    /\ ~Busy
    /\ func.cls \in QFClasses
    /\ Len(x) = func.domain
    /\ op' = "call"
    /\ arg' = x
    /\ out' = NoElem
    /\ ret' = Value(QF_call(func, x))
    /\ UNCHANGED <<func, orig, depth>>

\* func.convex_conj of a quadratic form
QFConvexConj ==
    /\ ~Busy
    /\ func.cls = "QuadraticForm"
    /\ depth < MaxConj
    /\ func' = QuadraticForm_convex_conj(func)
    /\ depth' = depth + 1
    /\ op' = "convex_conj"
    /\ arg' = NoElem
    /\ out' = NoElem
    /\ ret' = NoRet
    /\ UNCHANGED orig

NextQF ==
    \/ \E x \in QFPoints \cup {Foreign} : QFCall(x)
    \/ QFConvexConj
    \/ Return

SpecQF == InitQF /\ [][NextQF]_vars

(***************************************************************************)
(* L2NormSquared beside the QuadraticForm of the identity operator.        *)
(***************************************************************************)
\* L2NormSquared.__init__
L2NormSquared_init(space) ==
    [cls |-> "L2NormSquared", domain |-> space, is_linear |-> FALSE,
     grad_lipschitz |-> Fin(2)]

\* scalar * functional: x |-> scalar * functional(x)
FunctionalLeftScalarMult(scalar, f) ==
    [cls |-> "FunctionalLeftScalarMult", domain |-> f.domain,
     scalar |-> scalar, functional |-> f]

\* L2NormSquared._call
L2NormSquared_call(f, x) == Inner(x, x)

\* L2NormSquared.convex_conj
L2NormSquared_convex_conj(f) ==
    FunctionalLeftScalarMult(FDiv(One, Fin(4)), L2NormSquared_init(f.domain))

\* IdentityOperator(space)
IdentityOperator == LinearOp(DiagMat(VConst(One)))

SqClasses == {"QuadraticForm", "L2NormSquared", "FunctionalLeftScalarMult"}

\* f(x) for the two representations and their conjugates
Sq_call(f, x) ==
    CASE f.cls = "QuadraticForm" -> QuadraticForm_call(f, x)
      [] f.cls = "L2NormSquared" -> L2NormSquared_call(f, x)
      [] f.cls = "FunctionalLeftScalarMult" ->
            FMul(f.scalar, L2NormSquared_call(f.functional, x))

\* f.convex_conj for the two representations
Sq_convex_conj(f) ==
    IF f.cls = "QuadraticForm" THEN QuadraticForm_convex_conj(f)
    ELSE L2NormSquared_convex_conj(f)

SqPoints == VecOf({Fin(-1), Zero, Fin(2), Fin(3), FDiv(One, Fin(2))})

InitSq ==
    /\ func \in {QuadraticForm_init(IdentityOperator, NoVector, Zero),
                 L2NormSquared_init(Dim)}
    /\ orig = func
    /\ depth = 0
    /\ op = "init"
    /\ arg = NoElem
    /\ out = NoElem
    /\ ret = NoRet

\* func(x)
SqCall(x) ==
    /\ ~Busy
    /\ func.cls \in SqClasses
    /\ op' = "call"
    /\ arg' = x
    /\ out' = NoElem
    /\ ret' = Value(Sq_call(func, x))
    /\ UNCHANGED <<func, orig, depth>>

\* func.convex_conj
SqConvexConj ==
    /\ ~Busy
    /\ func.cls \in {"QuadraticForm", "L2NormSquared"}
    /\ depth < MaxConj
    /\ func' = Sq_convex_conj(func)
    /\ depth' = depth + 1
    /\ op' = "convex_conj"
    /\ arg' = NoElem
    /\ out' = NoElem
    /\ ret' = NoRet
    /\ UNCHANGED orig

NextSq ==
    \/ \E x \in SqPoints : SqCall(x)
    \/ SqConvexConj
    \/ Return

SpecSq == InitSq /\ [][NextSq]_vars

(***************************************************************************)
(* Construction and gradient of QuadraticForm, the arguments of the        *)
(* constructor being kept in arg.                                          *)
(***************************************************************************)
\* operators built by the arithmetic of odl.operator
ConstantOperator(vector, domain) ==
    [cls |-> "ConstantOperator", vector |-> vector, domain |-> domain]
OperatorLeftScalarMult(scalar, operator) ==
    [cls |-> "OperatorLeftScalarMult", scalar |-> scalar, operator |-> operator]
OperatorSum(left, right) == [cls |-> "OperatorSum", left |-> left, right |-> right]
OperatorVectorSum(operator, vector) ==
    [cls |-> "OperatorVectorSum", operator |-> operator, vector |-> vector]

\* QuadraticForm.gradient with 2 * operator whatever the adjoint
QuadraticForm_gradient_symmetric(f) ==
    IF ~f.operator.given THEN Object(ConstantOperator(f.vector.v, f.domain))
    ELSE IF ~f.operator.linear THEN Raise("NotImplementedError")
    ELSE LET gradient == OperatorLeftScalarMult(Fin(2), f.operator)
         IN  IF ~f.vector.given THEN Object(gradient)
             ELSE Object(OperatorVectorSum(gradient, f.vector.v))

\* QuadraticForm.gradient
QuadraticForm_gradient(f) ==
    IF ~f.operator.given THEN Object(ConstantOperator(f.vector.v, f.domain))
    ELSE IF ~f.operator.linear THEN Raise("NotImplementedError")
    ELSE LET opadjoint == OpAdjoint(f.operator)
             gradient == IF opadjoint = f.operator
                         THEN OperatorLeftScalarMult(Fin(2), f.operator)
                         ELSE OperatorSum(f.operator, opadjoint)
         IN  IF ~f.vector.given THEN Object(gradient)
             ELSE Object(OperatorVectorSum(gradient, f.vector.v))

\* 2 * operator and operator + opadjoint applied to x
LinearPart_call(g, x) ==
    IF g.cls = "OperatorLeftScalarMult"
    THEN [i \in DOMAIN x |-> FMul(g.scalar, OpApply(g.operator, x)[i])]
    ELSE VAdd(OpApply(g.left, x), OpApply(g.right, x))

\* the gradient operator g applied to x
QFGradient_call(g, x) ==
    CASE g.cls = "ConstantOperator" -> g.vector
      [] g.cls = "OperatorVectorSum" -> VAdd(LinearPart_call(g.operator, x), g.vector)
      [] OTHER -> LinearPart_call(g, x)

GradOperators == Operators \cup {NonLinearOp(TriMat)}

\* the state after QuadraticForm(operator, vector, constant)
QGInit(operator, vector, constant) ==
    LET f == QuadraticForm_init(operator, vector, constant)
    IN  /\ depth = 0
        /\ op = "init"
        /\ arg = [operator |-> operator, vector |-> vector, constant |-> constant]
        /\ out = NoElem
        /\ IF "cls" \in DOMAIN f
           THEN func = f /\ orig = f /\ ret = NoRet
           ELSE func = NoFunc /\ orig = NoFunc /\ ret = f

InitQG ==
    \E operator \in GradOperators, vector \in Vectors, constant \in Constants :
        QGInit(operator, vector, constant)

\* func.gradient
QFGradient ==
    /\ ~Busy
    /\ func.cls = "QuadraticForm"
    /\ op' = "gradient"
    /\ arg' = NoElem
    /\ out' = NoElem
    /\ ret' = QuadraticForm_gradient(func)
    /\ UNCHANGED <<func, orig, depth>>

\* func.gradient(x), for a gradient that is implemented
QFGradientCall(x) ==
    /\ ~Busy
    /\ func.cls = "QuadraticForm"
    /\ Len(x) = func.domain
    /\ LET g == QuadraticForm_gradient(func)
       IN  /\ g.tag = "object"
           /\ out' = QFGradient_call(g.obj, x)
    /\ op' = "gradient_call"
    /\ arg' = x
    /\ ret' = Returned
    /\ UNCHANGED <<func, orig, depth>>

NextQG ==
    \/ \E x \in QFPoints : QFCall(x)
    \/ QFGradient
    \/ \E x \in QFPoints : QFGradientCall(x)
    \/ Return

SpecQG == InitQG /\ [][NextQG]_vars

(***************************************************************************)
(* ConstantFunctional and IndicatorZero on rn(Dim).                        *)
(***************************************************************************)
\* ConstantFunctional.__init__, for a constant of the field of the space
ConstantFunctional_init(space, constant) ==
    [cls |-> "ConstantFunctional", domain |-> space,
     is_linear |-> (constant = Zero), constant |-> constant]

\* ConstantFunctional._call
ConstantFunctional_call(f, x) == f.constant

\* ConstantFunctional.convex_conj with the constant passed on as it is
ConstantFunctional_convex_conj_same(f) == IndicatorZero_init(f.domain, f.constant)

\* ConstantFunctional.convex_conj
ConstantFunctional_convex_conj(f) == IndicatorZero_init(f.domain, FNeg(f.constant))

\* IndicatorZero.convex_conj
IndicatorZero_convex_conj(f) == ConstantFunctional_init(f.domain, FNeg(f.constant))

ConstClasses == {"ConstantFunctional", "IndicatorZero"}
ConstValues == {Fin(-2), Zero, Rat(1, 2), One}

\* the state after ConstantFunctional(rn(Dim), c) or IndicatorZero(rn(Dim), c)
InitConst ==
    /\ \E c \in ConstValues :
          func \in {ConstantFunctional_init(Dim, c), IndicatorZero_init(Dim, c)}
    /\ orig = func
    /\ depth = 0
    /\ op = "init"
    /\ arg = NoElem
    /\ out = NoElem
    /\ ret = NoRet

\* func(x)
ConstCall(x) ==
    /\ ~Busy
    /\ op' = "call"
    /\ arg' = x
    /\ out' = NoElem
    /\ ret' = Value(IF func.cls = "ConstantFunctional"
                    THEN ConstantFunctional_call(func, x)
                    ELSE IndicatorZero_call(func, x))
    /\ UNCHANGED <<func, orig, depth>>

\* func.convex_conj
ConstConvexConj ==
    /\ ~Busy
    /\ depth < MaxConj
    /\ func' = (IF func.cls = "ConstantFunctional"
                THEN ConstantFunctional_convex_conj(func)
                ELSE IndicatorZero_convex_conj(func))
    /\ depth' = depth + 1
    /\ op' = "convex_conj"
    /\ arg' = NoElem
    /\ out' = NoElem
    /\ ret' = NoRet
    /\ UNCHANGED orig

NextConst ==
    \/ \E x \in QFPoints : ConstCall(x)
    \/ ConstConvexConj
    \/ Return

SpecConst == InitConst /\ [][NextConst]_vars

(***************************************************************************)
(* SeparableSum.  Its arguments are functionals, integers and other        *)
(* objects; an element of its domain is a tuple of elements, one for each  *)
(* functional.  Sums of at least one functional are modelled: the product  *)
(* space of no spaces is built outside this file.                          *)
(***************************************************************************)
MaxFuncs == 3

Integral(n) == [cls |-> "Integral", value |-> n]
\* an argument that is neither a functional nor an integer
NoFunctional == [cls |-> "LinearSpace"]

FunctionalClasses ==
    KLClasses \cup ConstClasses \cup LpClasses
        \cup {"IndicatorSimplex", "SeparableSum", "IndicatorLpUnitBall"}

\* isinstance(op, Functional)
IsFunctional(a) == a.cls \in FunctionalClasses

\* fi(xi) for the functionals that are summed here
Functional_call(f, x) ==
    CASE f.cls = "ConstantFunctional" -> ConstantFunctional_call(f, x)
      [] f.cls = "IndicatorZero" -> IndicatorZero_call(f, x)
      [] f.cls \in KLClasses -> KL_call(f, x)
      [] f.cls = "IndicatorSimplex" -> IndicatorSimplex_call(f, x)
      [] f.cls \in LpClasses -> LpNorm_call(f, x).v

\* func.convex_conj for the functionals that are summed here
Functional_convex_conj(f) ==
    CASE f.cls = "ConstantFunctional" -> ConstantFunctional_convex_conj(f)
      [] f.cls = "IndicatorZero" -> IndicatorZero_convex_conj(f)
      [] f.cls \in KLClasses -> KL_convex_conj(f)
      [] f.cls = "IndicatorSimplex" -> Raise("NotImplementedError")
      [] f.cls \in LpClasses -> LpNorm_convex_conj(f)

\* func.is_linear: every class but ConstantFunctional passes linear=False
Functional_is_linear(f) == IF f.cls = "ConstantFunctional" THEN f.is_linear ELSE FALSE

\* SeparableSum.__init__
SeparableSum_init(args) ==
    LET functionals ==
            IF Len(args) = 2 /\ args[2].cls = "Integral"
            THEN [i \in 1..args[2].value |-> args[1]]
            ELSE args
    IN  IF \E i \in DOMAIN functionals : ~IsFunctional(functionals[i])
        THEN Raise("TypeError")
        ELSE [cls |-> "SeparableSum",
              domain |-> [i \in DOMAIN functionals |-> functionals[i].domain],
              is_linear |-> \A i \in DOMAIN functionals :
                                Functional_is_linear(functionals[i]),
              functionals |-> functionals]

RECURSIVE SumCalls(_, _, _)
\* sum(fi(xi) for xi, fi in zip(x, functionals)), over the first n pairs
SumCalls(fs, x, n) ==
    IF n = 0 THEN Zero
    ELSE FAdd(SumCalls(fs, x, n - 1), Functional_call(fs[n], x[n]))

\* SeparableSum._call with the functionals taken in reverse
SeparableSum_call_reversed(f, x) ==
    LET n == Len(f.functionals)
    IN  SumCalls([i \in 1..n |-> f.functionals[n + 1 - i]], x, n)

\* SeparableSum._call
SeparableSum_call(f, x) == SumCalls(f.functionals, x, Len(f.functionals))

\* SeparableSum.convex_conj with the conjugates in reverse
SeparableSum_convex_conj_reversed(f) ==
    LET n == Len(f.functionals)
        convex_conjs == [i \in 1..n |-> Functional_convex_conj(f.functionals[n + 1 - i])]
    IN  IF \E i \in 1..n : "cls" \notin DOMAIN convex_conjs[i]
        THEN Raise("NotImplementedError")
        ELSE SeparableSum_init(convex_conjs)

\* SeparableSum.convex_conj: the sum of the conjugates, or the error the
\* first conjugate that is not implemented raises
SeparableSum_convex_conj(f) ==
    LET convex_conjs == [i \in DOMAIN f.functionals |->
                            Functional_convex_conj(f.functionals[i])]
    IN  IF \E i \in DOMAIN convex_conjs : "cls" \notin DOMAIN convex_conjs[i]
        THEN Raise("NotImplementedError")
        ELSE SeparableSum_init(convex_conjs)

\* an index expression: an integer, or slice(start, stop, step) with None
\* for the parts left out
NoneIdx == [given |-> FALSE, v |-> 0]
SomeIdx(i) == [given |-> TRUE, v |-> i]
IntIndex(i) == [kind |-> "int", i |-> i, start |-> NoneIdx, stop |-> NoneIdx,
                step |-> NoneIdx]
Slice(start, stop, step) ==
    [kind |-> "slice", i |-> 0, start |-> start, stop |-> stop, step |-> step]

\* a bound of a slice brought into the range of a tuple of length n
AdjustIndex(i, n, step) ==
    IF i < 0
    THEN IF i + n < 0 THEN (IF step < 0 THEN -1 ELSE 0) ELSE i + n
    ELSE IF i >= n THEN (IF step < 0 THEN n - 1 ELSE n) ELSE i

\* the indices (from 0) that a slice selects in a tuple of length n
SliceIndices(sl, n) ==
    LET step == IF sl.step.given THEN sl.step.v ELSE 1
        start == IF sl.start.given THEN AdjustIndex(sl.start.v, n, step)
                 ELSE IF step < 0 THEN n - 1 ELSE 0
        stop == IF sl.stop.given THEN AdjustIndex(sl.stop.v, n, step)
                ELSE IF step < 0 THEN -1 ELSE n
        count == IF step > 0
                 THEN IF start < stop THEN (stop - start - 1) \div step + 1 ELSE 0
                 ELSE IF stop < start THEN (start - stop - 1) \div (0 - step) + 1 ELSE 0
    IN  [k \in 1..count |-> start + (k - 1) * step]

\* SeparableSum.__getitem__ with the selected functionals put in ascending
\* order of their indices
SeparableSum_getitem_ascending(f, indices) ==
    LET n == Len(f.functionals)
    IN  IF indices.kind = "int"
        THEN IF indices.i >= n \/ indices.i < 0 - n THEN Raise("IndexError")
             ELSE Object(f.functionals[(IF indices.i < 0 THEN indices.i + n
                                        ELSE indices.i) + 1])
        ELSE LET sel == SliceIndices(indices, n)
                 m == Len(sel)
                 up == IF m > 1 /\ sel[1] > sel[m]
                       THEN [k \in 1..m |-> sel[m + 1 - k]] ELSE sel
             IN  Object(SeparableSum_init([k \in 1..m |-> f.functionals[up[k] + 1]]))

\* SeparableSum.__getitem__: the functional at an integer index, a new sum of
\* the functionals a slice selects
SeparableSum_getitem(f, indices) ==
    LET n == Len(f.functionals)
    IN  IF indices.kind = "int"
        THEN IF indices.i >= n \/ indices.i < 0 - n THEN Raise("IndexError")
             ELSE Object(f.functionals[(IF indices.i < 0 THEN indices.i + n
                                        ELSE indices.i) + 1])
        ELSE LET sel == SliceIndices(indices, n)
             IN  Object(SeparableSum_init([k \in DOMAIN sel |->
                                              f.functionals[sel[k] + 1]]))

\* the functionals that are summed: a linear one, an indicator, a divergence,
\* and one without convex conjugate
Summands ==
    {ConstantFunctional_init(Dim, Zero),
     IndicatorZero_init(Dim, One),
     [cls |-> "KullbackLeibler", domain |-> Dim, prior |-> NoPrior],
     IndicatorSimplex_init(Space("float64"), Fin(Dim), NoTol)}
SumArgs == Summands \cup {Integral(2), Integral(MaxFuncs), NoFunctional}
SumPoints == {VConst(Zero), VConst(One)}
SumIndices ==
    {IntIndex(i) : i \in -1..MaxFuncs}
        \cup {Slice(a, b, c) : a \in {NoneIdx, SomeIdx(1)},
                               b \in {NoneIdx, SomeIdx(2)},
                               c \in {NoneIdx, SomeIdx(2), SomeIdx(-1)}}

RECURSIVE SeqsOf(_, _)
\* the sequences over S of length 1..n
SeqsOf(S, n) ==
    IF n = 0 THEN {}
    ELSE LET T == SeqsOf(S, n - 1)
         IN  {<<a>> : a \in S} \cup T \cup {Append(t, a) : t \in T, a \in S}

\* the state after SeparableSum(*args), args being kept in arg
SumInit(args) ==
    LET f == SeparableSum_init(args)
    IN  /\ depth = 0
        /\ op = "init"
        /\ arg = args
        /\ out = NoElem
        /\ IF "cls" \in DOMAIN f
           THEN func = f /\ orig = f /\ ret = NoRet
           ELSE func = NoFunc /\ orig = NoFunc /\ ret = f

InitSum == \E args \in SeqsOf(SumArgs, MaxFuncs) : SumInit(args)

\* func(x)
SumCall(x) ==
    /\ ~Busy
    /\ func.cls = "SeparableSum"
    /\ Len(x) = Len(func.functionals)
    /\ op' = "call"
    /\ arg' = x
    /\ out' = NoElem
    /\ ret' = Value(SeparableSum_call(func, x))
    /\ UNCHANGED <<func, orig, depth>>

\* func[indices], for an index expression that selects something
SumGetItem(indices) ==
    /\ ~Busy
    /\ func.cls = "SeparableSum"
    /\ indices.kind = "slice" => Len(SliceIndices(indices, Len(func.functionals))) > 0
    /\ op' = "getitem"
    /\ arg' = indices
    /\ out' = NoElem
    /\ ret' = SeparableSum_getitem(func, indices)
    /\ UNCHANGED <<func, orig, depth>>

\* func.convex_conj
SumConvexConj ==
    /\ ~Busy
    /\ func.cls = "SeparableSum"
    /\ depth < MaxConj
    /\ LET c == SeparableSum_convex_conj(func)
       IN  IF "cls" \in DOMAIN c
           THEN func' = c /\ depth' = depth + 1 /\ ret' = NoRet
           ELSE func' = func /\ depth' = depth /\ ret' = c
    /\ op' = "convex_conj"
    /\ arg' = NoElem
    /\ out' = NoElem
    /\ UNCHANGED orig

NextSum ==
    \/ \E x \in SeqsOf(SumPoints, MaxFuncs) : SumCall(x)
    \/ \E indices \in SumIndices : SumGetItem(indices)
    \/ SumConvexConj
    \/ Return

SpecSum == InitSum /\ [][NextSum]_vars

(***************************************************************************)
(* The objects an evaluation or an access touches: the functional, the     *)
(* element x of the caller, and the objects that are built.  Here arg is   *)
(* the element the caller holds, out records the evaluations of it, and    *)
(* depth counts the objects the accesses have built.                       *)
(***************************************************************************)
MaxCalls == 2
MaxObjects == 2

\* LpNorm._call with tmp = x.ufuncs.absolute(out=x)
LpNorm_call_elements_inplace(f, x) ==
    IF f.exponent \in {DZero, DOne, DTwo} \/ ~DIsFin(f.exponent)
    THEN [x |-> x, tmp |-> NoElem]
    ELSE [x |-> VMap(FAbs, x),
          tmp |-> [i \in DOMAIN x |-> PowerOf(FAbs(x[i]), f.exponent)]]

\* LpNorm._call: the element x and the element tmp when it returns; the
\* ufuncs return new elements and power writes to tmp
LpNorm_call_elements(f, x) ==
    IF f.exponent \in {DZero, DOne, DTwo} \/ ~DIsFin(f.exponent)
    THEN [x |-> x, tmp |-> NoElem]
    ELSE LET tmp == VMap(FAbs, x)
         IN  [x |-> x,
              tmp |-> [i \in DOMAIN x |-> PowerOf(tmp[i], f.exponent)]]

\* func.gradient and func.proximal for the functionals that are summed here
Functional_gradient(f) == LpNorm_gradient(f)
Functional_proximal(f) == LpNorm_proximal(f)

\* SeparableSum.gradient
SeparableSum_gradient(f) ==
    LET gradients == [i \in DOMAIN f.functionals |->
                         Functional_gradient(f.functionals[i])]
    IN  IF \E i \in DOMAIN gradients : gradients[i].tag = "raise"
        THEN Raise("NotImplementedError")
        ELSE Object([cls |-> "DiagonalOperator",
                     operators |-> [i \in DOMAIN gradients |-> gradients[i].obj]])

\* SeparableSum.proximal
SeparableSum_proximal(f) ==
    LET proximals == [i \in DOMAIN f.functionals |->
                         Functional_proximal(f.functionals[i])]
    IN  IF \E i \in DOMAIN proximals : proximals[i].tag = "raise"
        THEN Raise("NotImplementedError")
        ELSE Object([cls |-> "combine_proximals",
                     factory_list |-> [i \in DOMAIN proximals |-> proximals[i].obj]])

\* func(x)
Frame_call(f, x) ==
    IF f.cls = "SeparableSum" THEN Value(SeparableSum_call(f, x))
    ELSE LpNorm_call(f, x)

\* the element x after func(x)
Frame_elements(f, x) ==
    IF f.cls = "SeparableSum"
    THEN [i \in DOMAIN x |-> LpNorm_call_elements(f.functionals[i], x[i]).x]
    ELSE LpNorm_call_elements(f, x).x

FrameAccesses == {"gradient", "proximal", "convex_conj"}

\* func.gradient, func.proximal, func.convex_conj
Frame_access(f, name) ==
    CASE name = "gradient" ->
            IF f.cls = "SeparableSum" THEN SeparableSum_gradient(f)
            ELSE LpNorm_gradient(f)
      [] name = "proximal" ->
            IF f.cls = "SeparableSum" THEN SeparableSum_proximal(f)
            ELSE LpNorm_proximal(f)
      [] name = "convex_conj" ->
            IF f.cls = "SeparableSum" THEN Object(SeparableSum_convex_conj(f))
            ELSE Object(LpNorm_convex_conj(f))

\* the exponents of the norms that are summed: their values are rational
FrameSumExps == {DZero, DOne, DPInf}
FrameVecs ==
    {VConst(Zero), VConst(Fin(-4)),
     [i \in Idx |-> IF i = 1 THEN Fin(-4) ELSE Fin(3)]}
FramePoints(f) ==
    IF f.cls = "SeparableSum" THEN {<<u, v>> : u \in FrameVecs, v \in FrameVecs}
    ELSE VecOf({Fin(-4), Zero, Fin(3)})

NoCalls == [value |-> NoRet, calls |-> 0, raised |-> FALSE]

InitFrame ==
    /\ \/ \E e \in LpCallExps : func = LpNorm_init(TensorSpace, e)
       \/ \E e1 \in FrameSumExps, e2 \in FrameSumExps :
             func = SeparableSum_init(<<LpNorm_init(TensorSpace, e1),
                                        LpNorm_init(TensorSpace, e2)>>)
    /\ orig = func
    /\ depth = 0
    /\ op = "init"
    /\ arg = NoElem
    /\ out = NoCalls
    /\ ret = NoRet

\* the caller makes an element x
FrameElement(x) ==
    /\ x \in FramePoints(func)
    /\ op' = "element"
    /\ arg' = x
    /\ out' = [out EXCEPT !.value = NoRet, !.calls = 0]
    /\ ret' = NoRet
    /\ UNCHANGED <<func, orig, depth>>

\* func(x), x being the element the caller holds
FrameCall ==
    /\ arg # NoElem
    /\ out.calls < MaxCalls
    /\ op' = "call"
    /\ ret' = Frame_call(func, arg)
    /\ arg' = Frame_elements(func, arg)
    /\ out' = [out EXCEPT !.value = ret', !.calls = @ + 1]
    /\ UNCHANGED <<func, orig, depth>>

\* func.gradient, func.proximal or func.convex_conj
FrameAccess(name) ==
    /\ depth < MaxObjects
    /\ op' = name
    /\ ret' = Frame_access(func, name)
    /\ depth' = (IF ret'.tag = "object" THEN depth + 1 ELSE depth)
    /\ out' = [out EXCEPT !.raised = @ \/ ret'.tag = "raise"]
    /\ UNCHANGED <<func, orig, arg>>

NextFrame ==
    \/ \E x \in FramePoints(func) : FrameElement(x)
    \/ FrameCall
    \/ \E name \in FrameAccesses : FrameAccess(name)

SpecFrame == InitFrame /\ [][NextFrame]_vars

(***************************************************************************)
(* Huber and MoreauEnvelope.  An element of rn(Dim) is a vector, an        *)
(* element of ProductSpace(rn(Dim), 2) a pair of vectors.                  *)
(***************************************************************************)
\* Huber.__init__
Huber_init(space, gamma) ==
    [cls |-> "Huber", domain |-> space, gamma |-> gamma,
     grad_lipschitz |-> IF FGt(gamma, Zero) THEN FDiv(One, gamma) ELSE PInf]

\* PointwiseNorm(domain, 2)(x) on a product space, x.ufuncs.absolute() else
HuberNorm(space, x) ==
    IF IsProductSpace(space)
    THEN [i \in Idx |-> Sqrt(SumTo([j \in DOMAIN x |-> FMul(x[j][i], x[j][i])], Len(x)))]
    ELSE VMap(FAbs, x)

\* Huber._call with the linear branch used above gamma only and without
\* the subtraction of gamma / 2
Huber_call_shifted(f, x) ==
    LET norm == HuberNorm(f.domain, x)
        tmp == IF FGt(f.gamma, Zero)
               THEN [i \in DOMAIN norm |->
                        IF FGe(norm[i], f.gamma) THEN norm[i]
                        ELSE FMul(FMul(norm[i], norm[i]),
                                  FDiv(One, FMul(Fin(2), f.gamma)))]
               ELSE norm
    IN  VSum(tmp)

\* Huber._call
Huber_call(f, x) ==
    LET norm == HuberNorm(f.domain, x)
        tmp == IF FGt(f.gamma, Zero)
               THEN [i \in DOMAIN norm |->
                        IF FGe(norm[i], f.gamma)
                        THEN FSub(norm[i], FDiv(f.gamma, Fin(2)))
                        ELSE FMul(FMul(norm[i], norm[i]),
                                  FDiv(One, FMul(Fin(2), f.gamma)))]
               ELSE norm
    IN  VSum(tmp)

\* x / gamma, for an element x and a float gamma.  The division is done
\* outside this file: by 0.0 it either raises ZeroDivisionError or gives
\* the quotients of IEEE 754
DivOutcomes == {"raise", "ieee"}
Scaled(x, gamma, space) ==
    IF IsProductSpace(space)
    THEN [j \in DOMAIN x |-> [i \in Idx |-> FDiv(x[j][i], gamma)]]
    ELSE [i \in DOMAIN x |-> FDiv(x[i], gamma)]

\* HuberGradient._call: the element returned, or the error raised
HuberGradient_call(f, x, division) ==
    IF IsZero(f.gamma) /\ division = "raise"
    THEN [ret |-> Raise("ZeroDivisionError"), out |-> NoElem]
    ELSE LET norm == HuberNorm(f.domain, x)
             grad == Scaled(x, f.gamma, f.domain)
             index == {i \in Idx : FGe(norm[i], f.gamma)}
         IN  [ret |-> Returned,
              out |-> IF IsProductSpace(f.domain)
                      THEN [j \in DOMAIN x |->
                               [i \in Idx |-> IF i \in index
                                              THEN FDiv(x[j][i], norm[i])
                                              ELSE grad[j][i]]]
                      ELSE [i \in Idx |-> IF i \in index THEN FDiv(x[i], norm[i])
                                          ELSE grad[i]]]

\* MoreauEnvelope.__init__
MoreauEnvelope_init(functional, sigma) ==
    [cls |-> "MoreauEnvelope", domain |-> functional.domain,
     functional |-> functional, sigma |-> sigma]

\* proximal_l1(space)(sigma)(x): the soft thresholding of x by sigma
proximal_l1_call(sigma, x) ==
    [i \in DOMAIN x |-> FMul(FSign(x[i]), FMax(FSub(FAbs(x[i]), sigma), Zero))]

\* functional.proximal(sigma)(x) for the functionals that are smoothed
Smoothed_proximal(f, sigma, x) ==
    IF f.cls = "L1Norm" THEN proximal_l1_call(sigma, x)
    ELSE ProximalSimplex_call(f, ProximalSimplex_init(sigma), x).out

\* MoreauEnvelope.gradient applied to x, the proximal not being scaled
MoreauEnvelope_gradient_call_unscaled(f, x) ==
    LET prox == Smoothed_proximal(f.functional, f.sigma, x)
    IN  [i \in DOMAIN x |-> FSub(FMul(FDiv(One, f.sigma), x[i]), prox[i])]

\* MoreauEnvelope.gradient applied to x
MoreauEnvelope_gradient_call(f, x) ==
    LET prox == Smoothed_proximal(f.functional, f.sigma, x)
    IN  [i \in DOMAIN x |-> FSub(FMul(FDiv(One, f.sigma), x[i]),
                                 FMul(FDiv(One, f.sigma), prox[i]))]

Gammas == {Zero, One, Fin(4)}
Sigmas1 == {One, Fin(4)}
HuberVals == {Fin(-4), Zero, One, Fin(3)}
\* the components of a pair of vectors at one index: their Euclidean norms
\* are 0, 1 and 5
HuberPairs == {<<Zero, Zero>>, <<Zero, One>>, <<Fin(3), Fin(4)>>, <<Fin(-4), Fin(3)>>}
HuberProduct == PowerSpace(TensorSpace)

\* the elements of a space at which the functionals are used
HuberPoints(space) ==
    IF IsProductSpace(space)
    THEN {[j \in 1..2 |-> [i \in Idx |-> c[i][j]]] : c \in [Idx -> HuberPairs]}
    ELSE VecOf(HuberVals)

InitHuber ==
    /\ \/ \E space \in {TensorSpace, HuberProduct}, gamma \in Gammas :
             func = Huber_init(space, gamma)
       \/ \E sigma \in Sigmas1 :
             \/ func = MoreauEnvelope_init(L1Norm_init(TensorSpace), sigma)
             \/ func = MoreauEnvelope_init(
                           IndicatorSimplex_init(Space("float64"), One, NoTol), sigma)
    /\ orig = func
    /\ depth = 0
    /\ op = "init"
    /\ arg = NoElem
    /\ out = NoElem
    /\ ret = NoRet

\* func(x)
HuberCall(x) ==
    /\ ~Busy
    /\ func.cls = "Huber"
    /\ op' = "call"
    /\ arg' = x
    /\ out' = NoElem
    /\ ret' = Value(Huber_call(func, x))
    /\ UNCHANGED <<func, orig, depth>>

\* func.gradient(x) of a Huber functional
HuberGradientCall(x, division) ==
    /\ ~Busy
    /\ func.cls = "Huber"
    /\ division = "raise" => IsZero(func.gamma)
    /\ LET r == HuberGradient_call(func, x, division)
       IN  ret' = r.ret /\ out' = r.out
    /\ op' = "gradient_call"
    /\ arg' = x
    /\ UNCHANGED <<func, orig, depth>>

\* func.gradient(x) of a Moreau envelope
MoreauGradientCall(x) ==
    /\ ~Busy
    /\ func.cls = "MoreauEnvelope"
    /\ op' = "gradient_call"
    /\ arg' = x
    /\ out' = MoreauEnvelope_gradient_call(func, x)
    /\ ret' = Returned
    /\ UNCHANGED <<func, orig, depth>>

NextHuber ==
    \/ /\ func.cls = "Huber"
       /\ \E x \in HuberPoints(func.domain) : HuberCall(x)
    \/ /\ func.cls = "Huber"
       /\ \E x \in HuberPoints(func.domain), division \in DivOutcomes :
             HuberGradientCall(x, division)
    \/ \E x \in VecOf(HuberVals) : MoreauGradientCall(x)
    \/ Return

SpecHuber == InitHuber /\ [][NextHuber]_vars

(***************************************************************************)
(* Claims about ConstantFunctional and IndicatorZero.                      *)
(***************************************************************************)
\* C12: ConstantFunctional(space, c) is c at every x and linear iff c = 0;
\* IndicatorZero(space, k) is k at x = 0 and +inf elsewhere; convex_conj of
\* either is the other on the same space with the constant negated, so the
\* conjugate of the conjugate has the class and the constant one started from.
C12_ConstantIndicatorZero ==
    /\ func.cls \in ConstClasses
    /\ func.domain = orig.domain
    /\ func.cls = "ConstantFunctional" =>
          /\ func.is_linear <=> func.constant = Zero
          /\ op = "call" => ret = Value(func.constant)
    /\ (func.cls = "IndicatorZero" /\ op = "call") =>
          ret = Value(IF arg = VConst(Zero) THEN func.constant ELSE PInf)
    /\ depth % 2 = 1 =>
          /\ func.cls # orig.cls
          /\ func.constant = FNeg(orig.constant)
    /\ depth % 2 = 0 =>
          /\ func.cls = orig.cls
          /\ func.constant = orig.constant

\* the conjugate of a non-zero constant functional has been evaluated at 0
C12_Witness ==
    /\ op = "call"
    /\ depth = 1
    /\ orig.cls = "ConstantFunctional"
    /\ orig.constant # Zero
    /\ arg = VConst(Zero)
    /\ ret = Value(FNeg(orig.constant))

(***************************************************************************)
(* Claims about QuadraticForm.                                             *)
(***************************************************************************)
SelfAdjoint(A) == Transpose(A.mat) = A.mat

\* Sylvester's criterion: every leading principal minor is positive
PosDef(A) ==
    \A k \in Rows(A.mat) :
        FGt(Det([i \in 1..k |-> [j \in 1..k |-> A.mat[i][j]]]), Zero)

\* the vector of a form, the zero element when it is absent
VectorElem(f) == IF f.vector.given THEN f.vector.v ELSE VConst(Zero)

\* <x,Ax> + <b,x> + c
FormValue(f, x) ==
    FAdd(FAdd(Inner(x, MatVec(f.operator.mat, x)), Inner(VectorElem(f), x)),
         f.constant)

\* the point x where y = 2Ax + b, at which the concave x |-> <y,x> - f(x)
\* attains its supremum when A is positive definite
Maximiser(f, y) ==
    VMap(LAMBDA t : FDiv(t, Fin(2)),
         MatVec(MatInverse(f.operator.mat), VSub(y, VectorElem(f))))

\* C2: for a quadratic form f with a self-adjoint invertible operator, any
\* vector and any constant, f.convex_conj.convex_conj evaluates at every x to
\* <x,Ax> + <b,x> + c.
C2_BiconjugateEvaluatesAsForm ==
    (op = "call" /\ depth = 2 /\ orig.cls = "QuadraticForm") =>
        ((orig.operator.given /\ SelfAdjoint(orig.operator)) =>
            ret.v = FormValue(orig, arg))

\* C3: for a quadratic form f with a self-adjoint positive definite operator,
\* f.convex_conj evaluates at every y to sup_x { <y,x> - f(x) }.
C3_ConjugateIsFenchel ==
    (op = "call" /\ depth = 1 /\ orig.cls = "QuadraticForm") =>
        ((orig.operator.given /\ SelfAdjoint(orig.operator) /\ PosDef(orig.operator)) =>
            LET xs == Maximiser(orig, arg)
            IN  ret.v = FSub(Inner(arg, xs), FormValue(orig, xs)))

(***************************************************************************)
(* Claims about the Kullback-Leibler family.                               *)
(***************************************************************************)
\* the prior as an element: None stands for the one-element
PriorElem(f) == IF f.prior.given THEN f.prior.v ELSE VConst(One)

\* g*log(q) with the convention 0*log 0 = 0
ZeroLog(g, q) == IF IsZero(g) THEN Zero ELSE FMul(g, FLog(q))

\* sum_i (x_i - g_i + g_i*log(g_i/x_i)), for x > 0
KLSum(g, x) ==
    VSum([i \in Idx |-> FAdd(FSub(x[i], g[i]), ZeroLog(g[i], FDiv(g[i], x[i])))])

\* sum_i -g_i*log(1 - x_i), for x < 1
KLCCSum(g, x) ==
    VSum([i \in Idx |-> FNeg(FMul(g[i], FLog(FSub(One, x[i]))))])

\* C4: KullbackLeibler(prior = g)(x) is +inf whenever some component of x is
\* <= 0, for every nonnegative prior, and otherwise the finite sum of
\* x_i - g_i + g_i*log(g_i/x_i) with 0*log 0 = 0.
C4_KullbackLeiblerValue ==
    (op = "call" /\ func.cls = "KullbackLeibler") =>
        ret.v = IF \E i \in Idx : FLe(arg[i], Zero)
                THEN PInf
                ELSE KLSum(PriorElem(func), arg)

\* C5: KullbackLeiblerConvexConj(prior = g)(x) is +inf whenever some component
\* of x is >= 1, for every nonnegative prior, and otherwise the finite sum of
\* -g_i*log(1 - x_i).
C5_KullbackLeiblerConvexConjValue ==
    (op = "call" /\ func.cls = "KullbackLeiblerConvexConj") =>
        ret.v = IF \E i \in Idx : FGe(arg[i], One)
                THEN PInf
                ELSE KLCCSum(PriorElem(func), arg)

\* C6: evaluating any of the four functionals never returns nan or -inf: the
\* value is a finite number or +inf.
C6_ValueFiniteOrPInf ==
    (op = "call" /\ func.cls \in KLClasses) =>
        (IsFinite(ret.v) \/ ret.v = PInf)

\* C7: the gradient of KullbackLeiblerCrossEntropy raises ValueError whenever
\* some component of x is <= 0, exactly when log(x/g) has a non-finite
\* component, and otherwise returns log(x/g); the gradient of KullbackLeibler
\* never raises and returns 1 - g/x, non-finite entries included.
C7_GradientAsymmetry ==
    LET g == PriorElem(func)
        logs == [i \in Idx |-> FLog(FDiv(arg[i], g[i]))]
    IN  /\ (op = "gradient" /\ func.cls = "KullbackLeiblerCrossEntropy") =>
            /\ (\E i \in Idx : FLe(arg[i], Zero)) => ret = Raise("ValueError")
            /\ ret = Raise("ValueError") <=> (\E i \in Idx : ~IsFinite(logs[i]))
            /\ ret = Raise("ValueError") <=>
                   (\E i \in Idx : FLe(arg[i], Zero) \/ IsZero(g[i]))
            /\ ret # Raise("ValueError") => (ret = Returned /\ out = logs)
        /\ (op = "gradient" /\ func.cls = "KullbackLeibler") =>
            /\ ret = Returned
            /\ out = [i \in Idx |-> FSub(One, FDiv(g[i], arg[i]))]

\* the cross entropy gradient has raised at a point where the gradient of
\* KullbackLeibler returns a non-finite entry
C7_Witness ==
    /\ op = "gradient"
    /\ func.cls = "KullbackLeiblerCrossEntropy"
    /\ func.prior.given
    /\ ret = Raise("ValueError")
    /\ \E i \in Idx : IsZero(arg[i])
    /\ \E i \in Idx : ~IsFinite(KLGradient_call(func, arg).out[i])

\* the class a convex_conj of the family returns
KLPartner(cls) ==
    CASE cls = "KullbackLeibler" -> "KullbackLeiblerConvexConj"
      [] cls = "KullbackLeiblerConvexConj" -> "KullbackLeibler"
      [] cls = "KullbackLeiblerCrossEntropy" -> "KullbackLeiblerCrossEntropyConvexConj"
      [] cls = "KullbackLeiblerCrossEntropyConvexConj" -> "KullbackLeiblerCrossEntropy"

\* C11: convex_conj of one of the four divergence functionals is the other
\* functional of its pair, on the same space and with the same prior (None
\* stays None); a construction with a prior that is given and not in the
\* domain raises ValueError, every other construction yields the functional.
C11_ConjugatePairs ==
    /\ [](op = "init" =>
            IF arg # NoElem /\ ~InDomain(arg)
            THEN ret = Raise("ValueError") /\ func = NoFunc
            ELSE /\ ret = NoRet
                 /\ func.cls \in KLClasses
                 /\ func.domain = Dim
                 /\ func.prior = (IF arg = NoElem THEN NoPrior ELSE Prior(arg)))
    /\ [][op' = "convex_conj" =>
            /\ func'.cls = KLPartner(func.cls)
            /\ func'.domain = func.domain
            /\ func'.prior = func.prior]_vars
    /\ [](func.cls \in KLClasses =>
            /\ func.prior = orig.prior
            /\ func.domain = orig.domain
            /\ func.cls \in {orig.cls, KLPartner(orig.cls)})

\* a conjugate with a prior that has a zero component has been conjugated
\* back
C11_Witness ==
    /\ op = "convex_conj"
    /\ func = orig
    /\ func.cls = "KullbackLeiblerCrossEntropy"
    /\ func.prior.given
    /\ \E i \in Idx : IsZero(func.prior.v[i])

\* C23: KullbackLeibler with prior g is 0 at x = g when every component of
\* g is positive; a component of g that is 0 adds nothing through
\* g log(g / x), so that at x > 0 the value is the sum of x_i - g_i, plus
\* g_i log(g_i / x_i) where g_i is not 0; with the prior 0 it is the sum of
\* the components of x.
C23_KLPriorValues ==
    op = "call" /\ func.cls = "KullbackLeibler" /\ func.prior.given =>
        LET g == func.prior.v
        IN  /\ (\A i \in Idx : FGt(g[i], Zero)) /\ arg = g => ret = Value(Zero)
            /\ (\A i \in Idx : FGt(arg[i], Zero)) =>
                /\ ret = Value(SumTo([i \in Idx |->
                                 IF IsZero(g[i]) THEN arg[i]
                                 ELSE FAdd(FSub(arg[i], g[i]),
                                           FMul(g[i], FLog(FDiv(g[i], arg[i]))))],
                                     Dim))
                /\ (\A i \in Idx : IsZero(g[i])) => ret = Value(SumTo(arg, Dim))

C23_Witness ==
    /\ op = "call"
    /\ func.cls = "KullbackLeibler"
    /\ func.prior.given
    /\ \A i \in Idx : IsZero(func.prior.v[i]) /\ arg[i] = One
    /\ ret = Value(Fin(Dim))

(***************************************************************************)
(* Claims about IndicatorSumConstraint and IndicatorSimplex.               *)
(***************************************************************************)
\* C8: IndicatorSumConstraint(space, sum_value).proximal(sigma) applied to x
\* completes without error and writes x_i + (sum_value - sum_j x_j)/n to every
\* component of out, so that the result sums to sum_value and the indicator
\* is 0 on it.
C8_ProximalSumProjects ==
    (op = "proximal" /\ func.cls = "IndicatorSumConstraint") =>
        /\ ret = Returned
        /\ out = [i \in Idx |->
                    FAdd(arg[i], FDiv(FSub(func.sum_value, VSum(arg)), Fin(Dim)))]
        /\ VSum(out) = func.sum_value

\* C9: y = IndicatorSimplex(space, diameter).proximal(sigma)(x) is
\* max(x - tau, 0) for a threshold tau, y >= 0, the components of y sum to
\* diameter, the indicator is 0 on y, and a point of the simplex is projected
\* to itself.
C9_SimplexProjection ==
    (op = "proximal" /\ func.cls = "IndicatorSimplex") =>
        /\ ret = Returned
        /\ \A i \in Idx : FGe(out[i], Zero)
        /\ VSum(out) = func.diameter
        /\ \E k \in Idx :
              /\ FGt(out[k], Zero)
              /\ LET tau == FSub(arg[k], out[k])
                 IN  \A i \in Idx : out[i] = FMax(FSub(arg[i], tau), Zero)
        /\ IndicatorSimplex_call(func, out) = Zero
        /\ ((\A i \in Idx : FGe(arg[i], Zero)) /\ VSum(arg) = func.diameter)
              => out = arg

\* a point outside the simplex has been projected and a positive component
\* of it has been cut to 0
C9_Witness ==
    /\ op = "proximal"
    /\ func.cls = "IndicatorSimplex"
    /\ ret = Returned
    /\ \E i \in Idx : FGt(arg[i], Zero) /\ IsZero(out[i])

\* the tolerance the constructor stores when sum_rtol is not given
DefaultSumRtol(space) ==
    IF space.dtype = "float64" THEN Tol(Fin(space.size), 10) ELSE Tol(Fin(space.size), 6)

\* C10: IndicatorSimplex(space, diameter, sum_rtol)(x) is 0 iff every
\* component of x is >= 0 and |sum_i x_i/diameter - 1| <= sum_rtol, and +inf
\* otherwise; sum_rtol defaults to 1e-10*size on float64 spaces and to
\* 1e-6*size on the others; gradient and convex_conj raise
\* NotImplementedError and leave the functional usable.
C10_SimplexValue ==
    func.cls = "IndicatorSimplex" =>
        /\ op = "call" =>
              /\ ret.tag = "value"
              /\ ret.v \in {Zero, PInf}
              /\ ret.v = Zero <=>
                    /\ \A i \in Idx : FGe(arg[i], Zero)
                    /\ LeTol(FAbs(FSub(FDiv(VSum(arg), func.diameter), One)),
                             func.sum_rtol)
        /\ func.sum_rtol \in {DefaultSumRtol(func.domain), Tol(Rat(1, 4), 0)}
        /\ (op = "call" /\ arg = NearPoint /\ func.diameter = One
               /\ func.sum_rtol.e # 0) =>
              (ret.v = Zero <=> func.domain.dtype # "float64")
        /\ op \in {"gradient", "convex_conj"} =>
              (ret = Raise("NotImplementedError") /\ func = orig)
        /\ op = "proximal" => ret = Returned

\* the indicator is 0 at a point with a zero component whose sum is off by 1e-7
C10_Witness ==
    /\ op = "call"
    /\ func.cls = "IndicatorSimplex"
    /\ arg = NearPoint
    /\ func.domain.dtype = "float32"
    /\ ret.v = Zero

\* C30: IndicatorSumConstraint at x is 0 exactly when the sum of the
\* components of x is sum_value within the relative tolerance, and +inf
\* otherwise, for every sum_value, 0 included: a vector whose components
\* sum to 0 is feasible for sum_value = 0; the signs of the components do
\* not matter.
C30_SumConstraintValue ==
    op = "call" /\ func.cls = "IndicatorSumConstraint" =>
        LET total == SumTo(arg, Len(arg))
            feasible ==
                IF IsZero(func.sum_value) THEN IsZero(total)
                ELSE LeTol(FDiv(FAbs(FSub(total, func.sum_value)),
                                FAbs(func.sum_value)), func.sum_rtol)
        IN  ret = Value(IF feasible THEN Zero ELSE PInf)

(***************************************************************************)
(* Claims about SeparableSum.                                              *)
(***************************************************************************)
\* the functionals that func sums, applied to the components of x
SummandValues(fs, x) == [i \in DOMAIN fs |-> Functional_call(fs[i], x[i])]

\* C13: the convex conjugate of a separable sum is the separable sum of the
\* conjugates of its functionals, in the same order and on the same product
\* domain; evaluated at y it gives the sum of the conjugates at the
\* components of y; conjugating twice gives back the functionals, each of
\* them being its own biconjugate; and when one functional has no convex
\* conjugate the access raises NotImplementedError and nothing is built.
C13_SumConjugate ==
    func.cls = "SeparableSum" =>
        LET n == Len(orig.functionals)
            conjs == [i \in 1..n |-> Functional_convex_conj(orig.functionals[i])]
        IN  /\ depth >= 1 =>
                /\ Len(func.functionals) = n
                /\ func.domain = orig.domain
            /\ depth % 2 = 1 => \A i \in 1..n : func.functionals[i] = conjs[i]
            /\ depth % 2 = 0 => func.functionals = orig.functionals
            /\ op = "call" /\ depth % 2 = 1 =>
                ret = Value(SumTo(SummandValues(conjs, arg), n))
            /\ op = "convex_conj" =>
                IF \E i \in DOMAIN func.functionals :
                       func.functionals[i].cls = "IndicatorSimplex"
                THEN ret = Raise("NotImplementedError") /\ func = orig /\ depth = 0
                ELSE ret = NoRet /\ depth >= 1

C13_Witness ==
    /\ op = "call"
    /\ depth = 1
    /\ Len(orig.functionals) >= 2
    /\ orig.functionals[1].cls = "ConstantFunctional"
    /\ orig.functionals[2].cls = "KullbackLeibler"
    /\ ret.tag = "value"
    /\ IsFin(ret.v)

\* C14: a separable sum evaluated at x is the sum of its functionals at the
\* components of x, the i-th functional taking the i-th component, hence
\* +inf when one of them is +inf; it is linear exactly when every one of
\* its functionals is linear.
C14_SumEvaluate ==
    func.cls = "SeparableSum" =>
        LET fs == func.functionals
        IN  /\ func.is_linear <=> \A i \in DOMAIN fs : Functional_is_linear(fs[i])
            /\ op = "call" =>
                LET vals == SummandValues(fs, arg)
                IN  /\ DOMAIN arg = DOMAIN fs
                    /\ ret = Value(SumTo(vals, Len(fs)))
                    /\ (\E i \in DOMAIN fs : vals[i] = PInf) => ret.v = PInf

C14_Witness ==
    /\ op = "call"
    /\ func.cls = "SeparableSum"
    /\ Len(func.functionals) >= 2
    /\ func.functionals[1].cls = "IndicatorZero"
    /\ func.functionals[2].cls = "KullbackLeibler"
    /\ IsFin(Functional_call(func.functionals[1], arg[1]))
    /\ Functional_call(func.functionals[2], arg[2]) = PInf
    /\ ret.v = PInf

\* the arguments of a separable sum once (functional, n) is written out
Expanded(args) ==
    IF Len(args) = 2 /\ args[2].cls = "Integral"
    THEN [i \in 1..args[2].value |-> args[1]]
    ELSE args

\* the indices (from 0) of a tuple of length n that a slice selects
Selected(sl, n) ==
    LET step == IF sl.step.given THEN sl.step.v ELSE 1
    IN  IF step > 0
        THEN LET lo == IF sl.start.given THEN sl.start.v ELSE 0
                 hi == IF sl.stop.given THEN sl.stop.v ELSE n
             IN  {i \in 0..(n - 1) : i >= lo /\ i < hi /\ (i - lo) % step = 0}
        ELSE LET top == IF sl.start.given /\ sl.start.v < n THEN sl.start.v
                        ELSE n - 1
                 bot == IF sl.stop.given THEN sl.stop.v ELSE -1
             IN  {i \in 0..(n - 1) :
                      i <= top /\ i > bot /\ (top - i) % (0 - step) = 0}

\* the members of a set of integers from the least to the greatest
Ascending(S) ==
    CHOOSE s \in [1..Cardinality(S) -> S] :
        \A i, j \in 1..Cardinality(S) : i < j => s[i] < s[j]

\* the members of a set of integers from the greatest to the least
Descending(S) ==
    CHOOSE s \in [1..Cardinality(S) -> S] :
        \A i, j \in 1..Cardinality(S) : i < j => s[i] > s[j]

\* what C15 says of construction and of integer indices
C15_InitAndIndex ==
    /\ op = "init" =>
        LET functionals == Expanded(arg)
        IN  IF \A i \in DOMAIN functionals : IsFunctional(functionals[i])
            THEN /\ ret = NoRet
                 /\ func.functionals = functionals
                 /\ func = SeparableSum_init(functionals)
            ELSE ret = Raise("TypeError") /\ func = NoFunc
    /\ op = "getitem" /\ arg.kind = "int" /\ arg.i >= 0
            /\ arg.i < Len(func.functionals) =>
        ret = Object(func.functionals[arg.i + 1])

C16_LpNormValues ==
    op = "call" /\ func.cls \in LpClasses =>
        LET p == func.exponent
            a == [i \in DOMAIN arg |-> FAbs(arg[i])]
        IN  /\ CASE p = DZero ->
                      ret = Value(Fin(Cardinality({i \in DOMAIN arg : ~IsZero(arg[i])})))
                 [] p = DOne -> ret = Value(SumTo(a, Len(a)))
                 [] p = DTwo ->
                      /\ ret = Value(Sqrt(Inner(arg, arg)))
                      /\ IsRat(ret.v) =>
                            FMul(ret.v, ret.v) = SumTo([i \in DOMAIN arg |->
                                                           FMul(arg[i], arg[i])], Len(arg))
                 [] DIsFin(p) /\ p \notin {DZero, DOne, DTwo} ->
                      ret = Value(PowerOf(SumOf([i \in DOMAIN arg |-> PowerOf(a[i], p)]),
                                          DDiv(DOne, p)))
                 [] p = DPInf ->
                      /\ ret.tag = "value"
                      /\ \E i \in DOMAIN a : ret.v = a[i]
                      /\ \A i \in DOMAIN a : FLe(a[i], ret.v)
                 [] p = DNInf ->
                      /\ ret.tag = "value"
                      /\ \E i \in DOMAIN a : ret.v = a[i]
                      /\ \A i \in DOMAIN a : FLe(ret.v, a[i])
                 [] OTHER -> ret = Raise("RuntimeError")
            /\ arg = <<Fin(3), Fin(4)>> /\ p = DOne => ret = Value(Fin(7))
            /\ arg = <<Fin(3), Fin(4)>> /\ p = DTwo => ret = Value(Fin(5))

C16_Witness ==
    /\ op = "call"
    /\ func.cls = "LpNorm"
    /\ func.exponent = DTwo
    /\ arg = <<Fin(3), Fin(4)>>
    /\ ret = Value(Fin(5))

\* the exponent that GroupL1Norm and LpNorm test in proximal and gradient
TestedExponent(f) ==
    IF f.cls = "GroupL1Norm" THEN f.pointwise_norm.exponent ELSE f.exponent

\* what C17 says of construction and of the accesses
C17_LazyAccess ==
    /\ func.cls \in ProximalClasses
    /\ func = orig
    /\ op = "init" => ret = NoRet
    /\ op = "proximal" =>
        /\ ret.tag \in {"object", "raise"}
        /\ ret.tag = "raise" => ret = Raise("NotImplementedError")
        /\ func.cls \in LpClasses =>
            (ret.tag = "raise" <=> TestedExponent(func) \notin {DOne, DTwo, DPInf})
        /\ func.cls = "GroupL1Norm" =>
            (ret.tag = "raise" <=> TestedExponent(func) \notin {DOne, DTwo})
        /\ func.cls = "NuclearNorm" =>
            (ret.tag = "raise" <=>
                \/ func.outernorm.exponent # DOne
                \/ func.pwisenorm.exponent \notin {DOne, DTwo, DPInf})
    /\ op = "gradient" =>
        /\ ret.tag \in {"object", "raise"}
        /\ ret.tag = "raise" => ret = Raise("NotImplementedError")
        /\ ret.tag = "raise" <=> TestedExponent(func) \notin {DOne, DTwo}

C18_GradientConventions ==
    /\ op = "gradient" /\ ret.tag = "object" =>
        /\ ret.obj.domain = func.domain
        /\ ret.obj.range = func.domain
        /\ ~ret.obj.is_linear
    /\ op = "derivative" =>
        /\ func.exponent = DOne
        /\ ret.tag = "object"
        /\ ret.obj.cls = "ZeroOperator"
        /\ ret.obj.domain = func.domain
    /\ op = "gradient_call" /\ func.exponent = DOne =>
        \A i \in DOMAIN arg :
            out[i] = (IF FGt(arg[i], Zero) THEN One
                      ELSE IF FLt(arg[i], Zero) THEN Fin(-1) ELSE Zero)
    /\ op = "gradient_call" /\ func.exponent = DTwo =>
        LET norm == Sqrt(Inner(arg, arg))
        IN  IF \A i \in DOMAIN arg : IsZero(arg[i])
            THEN norm = Zero /\ out = [i \in DOMAIN arg |-> Zero]
            ELSE /\ norm # Zero
                 /\ \A i \in DOMAIN arg :
                        IF IsRat(norm) THEN IsRat(out[i]) /\ FMul(out[i], norm) = arg[i]
                        ELSE out[i] = Quotient(arg[i], norm)

C18_Witness ==
    /\ op = "gradient_call"
    /\ func.exponent = DTwo
    /\ \A i \in DOMAIN arg : IsZero(arg[i])
    /\ out = [i \in DOMAIN arg |-> Zero]

(***************************************************************************)
(* Claims about the construction and the gradient of QuadraticForm.        *)
(***************************************************************************)
\* the dimension of the space of an operator or of a vector
SpaceOf(a) == IF "mat" \in DOMAIN a THEN Len(a.mat) ELSE Len(a.v)

\* C19: QuadraticForm(operator, vector, constant) raises ValueError when
\* operator and vector are both absent, when both are given and the vector is
\* not in the domain of the operator, and when the constant is not in the
\* range; otherwise its domain is that of the operator, or the space of the
\* vector when there is no operator, its value at x is <x, A x> + <b, x> + c
\* with the absent parts left out, and it is linear exactly when the
\* operator is absent and the constant is 0.
C19_QuadraticFormConstruction ==
    /\ op = "init" =>
        IF \/ ~arg.operator.given /\ ~arg.vector.given
           \/ /\ arg.operator.given /\ arg.vector.given
              /\ SpaceOf(arg.vector) # SpaceOf(arg.operator)
           \/ arg.constant = Complex
        THEN ret = Raise("ValueError") /\ func = NoFunc
        ELSE /\ ret = NoRet
             /\ func.cls = "QuadraticForm"
             /\ func.domain = (IF arg.operator.given THEN SpaceOf(arg.operator)
                               ELSE SpaceOf(arg.vector))
             /\ func.is_linear <=> (~arg.operator.given /\ arg.constant = Zero)
             /\ func.operator = arg.operator
             /\ func.vector = arg.vector
             /\ func.constant = arg.constant
    /\ op = "call" =>
        LET quadratic == IF func.operator.given
                         THEN Inner(arg, OpApply(func.operator, arg)) ELSE Zero
            linear == IF func.vector.given THEN Inner(func.vector.v, arg) ELSE Zero
        IN  ret = Value(FAdd(FAdd(quadratic, linear), func.constant))

C19_Witness ==
    /\ op = "call"
    /\ func.operator.given
    /\ func.operator.mat = ShearMat
    /\ func.vector = Vector(Unit1)
    /\ func.constant = One
    /\ ~func.is_linear
    /\ arg = [i \in Idx |-> Fin(2)]

\* C20: the gradient of a quadratic form without operator is the constant
\* operator that returns b; with a linear operator A it is x |-> (A + A*) x
\* + b, built as 2 A when A is equal to its adjoint and as A + A* otherwise,
\* b being left out when there is no vector; with an operator that is not
\* linear the access raises NotImplementedError, though the functional has
\* been built and can be evaluated.
C20_QuadraticFormGradient ==
    /\ op = "gradient" =>
        IF ~func.operator.given
        THEN ret = Object(ConstantOperator(func.vector.v, func.domain))
        ELSE IF ~func.operator.linear
        THEN ret = Raise("NotImplementedError") /\ func = orig
        ELSE LET A == func.operator
                 core == IF A.mat = Transpose(A.mat)
                         THEN OperatorLeftScalarMult(Fin(2), A)
                         ELSE OperatorSum(A, LinearOp(Transpose(A.mat)))
             IN  ret = Object(IF func.vector.given
                              THEN OperatorVectorSum(core, func.vector.v) ELSE core)
    /\ op = "gradient_call" =>
        /\ func.operator.given => func.operator.linear
        /\ \A i \in DOMAIN arg :
            out[i] = FAdd(IF func.operator.given
                          THEN SumTo([j \in DOMAIN arg |->
                                        FMul(FAdd(func.operator.mat[i][j],
                                                  func.operator.mat[j][i]), arg[j])],
                                     Len(arg))
                          ELSE Zero,
                          IF func.vector.given THEN func.vector.v[i] ELSE Zero)
    /\ op = "call" /\ func.operator.given /\ ~func.operator.linear =>
        ret.tag = "value"

C20_Witness ==
    /\ op = "gradient_call"
    /\ func.operator.given
    /\ func.operator.mat = ShearMat
    /\ func.vector = Vector(Unit1)
    /\ arg = [i \in Idx |-> Fin(2)]
    /\ out[1] = Fin(7)

(***************************************************************************)
(* Claims about Huber and MoreauEnvelope.                                  *)
(***************************************************************************)
\* |x_i|, and on a product space the Euclidean norm of the components of x
\* at the index i, which is an integer at every point used
Magnitude(space, x, i) ==
    IF IsProductSpace(space)
    THEN CHOOSE t \in {Fin(k) : k \in 0..8} :
            FMul(t, t) = FAdd(FMul(x[1][i], x[1][i]), FMul(x[2][i], x[2][i]))
    ELSE FAbs(x[i])

\* f_gamma(t)
HuberFunction(gamma, t) ==
    IF FLe(t, gamma) THEN FDiv(FMul(t, t), FMul(Fin(2), gamma))
    ELSE FSub(t, FDiv(gamma, Fin(2)))

\* C21: Huber(space, gamma) at x is the sum over the points i of
\* f_gamma(t_i), t_i being |x_i| or, on a product space, the Euclidean norm
\* of the components at i, with f_gamma(t) = t^2 / (2 gamma) for t <= gamma
\* and t - gamma / 2 otherwise, the two agreeing at t = gamma; for gamma = 0
\* it is the sum of the t_i, the 1-norm; grad_lipschitz is 1 / gamma for
\* gamma > 0 and +inf for gamma = 0.
C21_HuberValue ==
    func.cls = "Huber" =>
        /\ func.grad_lipschitz = (IF IsZero(func.gamma) THEN PInf
                                  ELSE FDiv(One, func.gamma))
        /\ FGt(func.gamma, Zero) =>
            FDiv(FMul(func.gamma, func.gamma), FMul(Fin(2), func.gamma))
                = FSub(func.gamma, FDiv(func.gamma, Fin(2)))
        /\ op = "call" =>
            LET t == [i \in Idx |-> Magnitude(func.domain, arg, i)]
            IN  IF IsZero(func.gamma)
                THEN /\ ret = Value(SumTo(t, Dim))
                     /\ ~IsProductSpace(func.domain) =>
                            ret = LpNorm_call(L1Norm_init(func.domain), arg)
                ELSE ret = Value(SumTo([i \in Idx |-> HuberFunction(func.gamma, t[i])],
                                       Dim))

C21_Witness ==
    /\ op = "call"
    /\ func.cls = "Huber"
    /\ IsProductSpace(func.domain)
    /\ func.gamma = Fin(4)
    /\ Magnitude(func.domain, arg, 1) = Fin(5)
    /\ Magnitude(func.domain, arg, 2) = One

\* C22: the gradient of MoreauEnvelope(f, sigma) at x is (x - p) / sigma, p
\* being f.proximal(sigma) applied to x; for f the 1-norm it is the gradient
\* of Huber(space, sigma) at x: x_i / sigma where |x_i| <= sigma and the sign
\* of x_i where |x_i| > sigma.
C22_MoreauGradient ==
    op = "gradient_call" /\ func.cls = "MoreauEnvelope" =>
        LET p == Smoothed_proximal(func.functional, func.sigma, arg)
        IN  /\ ret = Returned
            /\ \A i \in DOMAIN arg : out[i] = FDiv(FSub(arg[i], p[i]), func.sigma)
            /\ func.functional.cls = "L1Norm" =>
                /\ out = HuberGradient_call(Huber_init(func.domain, func.sigma),
                                            arg, "ieee").out
                /\ \A i \in DOMAIN arg :
                      out[i] = (IF FLe(FAbs(arg[i]), func.sigma)
                                THEN FDiv(arg[i], func.sigma) ELSE FSign(arg[i]))

C22_Witness ==
    /\ op = "gradient_call"
    /\ func.cls = "MoreauEnvelope"
    /\ func.functional.cls = "L1Norm"
    /\ func.sigma = Fin(4)
    /\ arg[1] = Fin(-4)
    /\ arg[2] = One
    /\ out[1] = Fin(-1)
    /\ out[2] = Rat(1, 4)

\* C29: the gradient of Huber(space, gamma) at x is x_i / gamma where
\* |x_i| < gamma and x_i / |x_i| where |x_i| >= gamma; every component of it
\* is finite for every x and every gamma >= 0; for gamma = 0 it is the sign
\* of x, 0 where x_i = 0.
C29_HuberGradient ==
    op = "gradient_call" /\ func.cls = "Huber" /\ ~IsProductSpace(func.domain) =>
        /\ ret = Returned
        /\ \A i \in Idx :
            /\ IsFin(out[i])
            /\ IsZero(func.gamma) => out[i] = FSign(arg[i])
            /\ FGt(func.gamma, Zero) =>
                out[i] = (IF FLt(FAbs(arg[i]), func.gamma)
                          THEN FDiv(arg[i], func.gamma)
                          ELSE FDiv(arg[i], FAbs(arg[i])))

C27_ProximalOfConjugate ==
    op = "proximal" /\ depth = 1 =>
        /\ orig.cls \in LpClasses =>
            /\ ret.tag = "object" <=> orig.exponent \in {DOne, DTwo, DPInf}
            /\ orig.exponent = DOne =>
                ret = Factory("proximal_convex_conj_l1", orig.domain)
            /\ orig.exponent = DTwo =>
                ret = Factory("proximal_convex_conj_l2", orig.domain)
            /\ orig.exponent = DPInf =>
                ret = Factory("proximal_convex_conj_linfty", orig.domain)
        /\ orig.cls = "GroupL1Norm" =>
            /\ ret.tag = "object" <=> orig.pointwise_norm.exponent \in {DOne, DTwo}
            /\ orig.pointwise_norm.exponent = DOne =>
                ret = Factory("proximal_convex_conj_l1", orig.domain)
            /\ orig.pointwise_norm.exponent = DTwo =>
                ret = Factory("proximal_convex_conj_l1_l2", orig.domain)

(***************************************************************************)
(* Claims about the two representations of the squared L2-norm.            *)
(***************************************************************************)
\* the other representation of the functional the run started from
OtherRepresentation ==
    IF orig.cls = "QuadraticForm" THEN L2NormSquared_init(orig.domain)
    ELSE QuadraticForm_init(IdentityOperator, NoVector, Zero)

\* C28: QuadraticForm(identity) and L2NormSquared evaluate to <x,x> at
\* every x, and their convex conjugates evaluate to the same value at
\* every y.
C28_SameFunctional ==
    op = "call" /\ depth <= 1 =>
        /\ depth = 0 =>
            /\ ret = Value(Inner(arg, arg))
            /\ ret = Value(Sq_call(OtherRepresentation, arg))
        /\ depth = 1 =>
            ret = Value(Sq_call(Sq_convex_conj(OtherRepresentation), arg))

(***************************************************************************)
(* Claims about what an evaluation and an access leave unchanged.          *)
(***************************************************************************)
\* a step of an evaluation or an access: the functional is as constructed,
\* the element x is as it was, an evaluation of the element that has been
\* evaluated returns the value it returned before, and an access returns
\* an object that has just been built, or raises
FrameStep ==
    /\ func = orig
    /\ func' = orig
    /\ op' = "call" =>
        /\ arg' = arg
        /\ ret'.tag \in {"value", "raise"}
        /\ out.calls > 0 => ret' = out.value
    /\ op' \in FrameAccesses =>
        /\ arg' = arg
        /\ ret'.tag \in {"object", "raise"}
        /\ ret'.tag = "object" => depth' = depth + 1
        /\ ret'.tag = "raise" => ret' = Raise("NotImplementedError")
        /\ op = op' => ret' = ret

====
